---- MODULE Spec2Model ----
(***************************************************************************)
(* Chain / UTXO engine and node handlers of the Bitcoin testnet node       *)
(* (tp-grupal/btc_node).                                                   *)
(*                                                                         *)
(* Hashes.  double-SHA256 is modelled as a collision-free function: the    *)
(* identity of a value is the pair <<tag, hashed value>>.  The only place  *)
(* that reads the bytes of an identity is the proof-of-work comparison;    *)
(* HashBytes gives the 32 bytes, which for a header are determined by its  *)
(* nonce (the field a miner varies to move the hash).                      *)
(***************************************************************************)
EXTENDS Integers, Sequences, FiniteSets, TLC

(***************************************************************************)
(* Bounds of the model.                                                    *)
(***************************************************************************)
MaxChain == 3        \* blocks kept in the chain, genesis included
MaxFile == 2         \* 48-byte entries of a chain file
I64Bits == 4         \* width that stands for the 64 bits of an i64
MaxCommands == 1     \* commands the wallet thread takes from its channel
HeaderLen == 2       \* units that stand for the 24 bytes of a message header
MaxHeaders == 2      \* headers that stand for the 2000 of a full headers message
MaxReads == 6        \* calls of Message::read_from on the connection
MaxAddrs == 2        \* addresses Node::new resolves for the configured endpoint
MaxThreads == 2      \* largest block_downloading_threads of a configuration
MaxPolls == 2        \* iterations of the polling loop of the block download
MaxLeaves == 4       \* identities in a list given to merkle_tree_root
MaxElements == 2     \* locator hashes or inventory entries in a payload
MaxFrames == 2       \* messages each thread writes to the socket of the peer

VARIABLES
    chain,              \* Blockchain.chain: chain[1] is the tail (genesis), the last one is the tip
    utxo,               \* Blockchain.utxo.set: txid -> sequence of live outputs
    mempool,            \* Node.mempool: txid -> transaction
    wallet_txs,         \* Node.wallet_txs: txid -> the address it is watched for
    wallet_addresses,   \* Node.wallet_addresses: the addresses of the wallet, in order
    events,             \* the NodeApi events sent to the interface, in order
    sent,               \* the transactions broadcast_transaction has written to a peer
    peers,              \* per peer thread: where it is in handle_tx, and with which transaction
    wallet,             \* the thread of handle_wallet_messages: its state, the commands it took
    ret,                \* the last call of the Blockchain API or wallet command: what it was,
                        \* on what, what it returned
    conn,               \* one connection to a peer, from TcpStream::connect on: where its
                        \* thread is, the unread bytes of the socket, the last message read,
                        \* what the last step wrote
    calc,               \* the last call of a function that has no state: what it was, on
                        \* what, what it returned
    boot,               \* Node::initialize: where it is, the peers it registered, the
                        \* workers of the block download and what they received
    wire                \* the socket of one registered peer: the writes it received, in
                        \* order, and what each thread that holds a handle still has to write

nodeVars ==
    <<mempool, wallet_txs, wallet_addresses, events, sent, peers, wallet, conn, calc, boot, wire>>

vars ==
    <<chain, utxo, mempool, wallet_txs, wallet_addresses, events, sent, peers, wallet, ret, conn,
      calc, boot, wire>>

(***************************************************************************)
(* Sequence helpers.                                                       *)
(***************************************************************************)
Last(s) == s[Len(s)]

Range(s) == {s[i] : i \in 1..Len(s)}

RECURSIVE Pow(_, _)
Pow(b, e) == IF e = 0 THEN 1 ELSE b * Pow(b, e - 1)

Rep(n, x) == [i \in 1..n |-> x]

\* The sequences over S of length at most n.
RECURSIVE SeqsUpTo(_, _)
SeqsUpTo(S, n) ==
    IF n = 0 THEN {<<>>}
    ELSE LET shorter == SeqsUpTo(S, n - 1)
         IN  shorter \cup {Append(s, x) : s \in shorter, x \in S}

(***************************************************************************)
(* i64 arithmetic.  A release build wraps on overflow, a build with        *)
(* overflow checks panics.                                                 *)
(***************************************************************************)
I64Max == Pow(2, I64Bits - 1) - 1

I64Min == 0 - Pow(2, I64Bits - 1)

Wrap(n) == ((n - I64Min) % Pow(2, I64Bits)) + I64Min

Overflows(n) == n > I64Max \/ n < I64Min

(***************************************************************************)
(* Identities.                                                             *)
(***************************************************************************)
sha256d(x) == <<"sha256d", x>>

\* [0u8; 32] and [1u8; 32]
ZeroHash == <<"bytes", 0>>

OnesHash == <<"bytes", 1>>

GENESIS_BLOCK_HASH_VALUE == <<"hex", "000000000933ea01ad0ee984209779baaec3ced90fa3f408719526f8d77f4943">>

GENESIS_BLOCK_MERKLE_ROOT_HASH_VALUE == <<"hex", "4a5e1e4baab89f3a32518a88c31bc87f618f76673e2cc77ab2127b7afdeda33b">>

\* decode_hex of the genesis identity: hash[31 - i] is the i-th byte of the text,
\* so the text's last byte comes first.
GenesisHashBytes ==
    <<67, 73, 127, 215, 248, 38, 149, 113, 8, 244, 163, 15, 217, 206, 195, 174,
      186, 121, 151, 32, 132, 233, 14, 173, 1, 234, 51, 9, 0, 0, 0, 0>>

\* The 32 bytes of an identity, hash[0] first.
HashBytes(h) ==
    CASE h[1] = "bytes" -> Rep(32, h[2])
      [] h[1] = "hex" -> GenesisHashBytes
      [] h[1] = "sha256d" -> <<h[2].nonce>> \o Rep(31, 0)

(***************************************************************************)
(* Scripts and transactions.                                               *)
(***************************************************************************)
SIGHASH_ALL == 1

P2PKH(pkhash) == [kind |-> "P2PKH", hash |-> pkhash]

\* hash160 of the public key of key k is the key hash k.
hash160(pubkey) == pubkey

Outpoint(hash, index) == [hash |-> hash, index |-> index]

TxIn(previous_output, signature_script) ==
    [previous_output |-> previous_output, signature_script |-> signature_script]

TxOut(value, pk_script) == [value |-> value, pk_script |-> pk_script]

RawTransaction(txin, txout) == [tx_in |-> txin, tx_out |-> txout]

get_tx_id(tx) == <<"txid", tx>>

\* RawTransaction::serialize: the bytes signed for input `input` (0-based): every
\* outpoint, the spent script at `input` and an empty script elsewhere, the outputs.
serialize(tx, input, pubkey_script) ==
    << [i \in 1..Len(tx.tx_in) |->
           <<tx.tx_in[i].previous_output,
             IF i = input + 1 THEN <<pubkey_script>> ELSE <<>> >>],
       tx.tx_out >>

\* The signature script built by RawTransaction::create_transaction: the signature
\* with its SIGHASH_ALL byte, then the public key.
SignatureScript(key, msg) == << [key |-> key, msg |-> msg, flag |-> SIGHASH_ALL], key >>

\* RawTransaction::create_transaction: out_to_spend is a sequence of <<txid, Output>>.
create_transaction(out_to_spend, tx_out, key) ==
    LET unsigned == RawTransaction(
            [i \in 1..Len(out_to_spend) |->
                TxIn(Outpoint(out_to_spend[i][1], out_to_spend[i][2].index), <<>>)],
            tx_out)
    IN  RawTransaction(
            [i \in 1..Len(out_to_spend) |->
                TxIn(unsigned.tx_in[i].previous_output,
                     SignatureScript(key,
                         sha256d(serialize(unsigned, i - 1, out_to_spend[i][2].pkscript))))],
            tx_out)

\* evaluate_script on a P2PKH script: <sig> <pubkey> DUP HASH160 <pkhash> EQUALVERIFY CHECKSIG
evaluate_script(pubkey_script, tx, input) ==
    LET ss == tx.tx_in[input + 1].signature_script
    IN  /\ Len(ss) = 2
        /\ hash160(ss[2]) = pubkey_script.hash
        /\ ss[1].flag = SIGHASH_ALL
        /\ ss[1].key = ss[2]
        /\ ss[1].msg = sha256d(serialize(tx, input, pubkey_script))

\* PubKeyScript::evaluate
evaluate(pkscript, tx, index) ==
    IF index >= Len(tx.tx_in) THEN FALSE
    ELSE IF pkscript.kind = "P2PKH" THEN evaluate_script(pkscript, tx, index)
    ELSE FALSE

\* utxo_set::Output
Output(index, value, pkscript) == [index |-> index, value |-> value, pkscript |-> pkscript]

\* Tx::from_raw_tx: the outputs numbered 0..n-1, the identity computed
from_raw_tx(tx) ==
    [tx_in |-> tx.tx_in,
     tx_out |-> [i \in 1..Len(tx.tx_out) |->
                    Output(i - 1, tx.tx_out[i].value, tx.tx_out[i].pk_script)],
     tx_id |-> get_tx_id(tx)]

from_raw_txs(raw_txs) == [i \in 1..Len(raw_txs) |-> from_raw_tx(raw_txs[i])]

get_tx_ids(txs) == [i \in 1..Len(txs) |-> txs[i].tx_id]

\* Tx::get_inputs
get_inputs(tx) ==
    [i \in 1..Len(tx.tx_in) |->
        <<tx.tx_in[i].previous_output.hash, tx.tx_in[i].previous_output.index>>]

(***************************************************************************)
(* UtxoSet (blockchain/utxo_set.rs).                                       *)
(***************************************************************************)
EmptyMap == [k \in {} |-> <<>>]

\* HashMap::values
MapValues(m) == {m[k] : k \in DOMAIN m}

MapRemove(m, key) == [k \in DOMAIN m \ {key} |-> m[k]]

MapInsert(m, key, val) == [k \in DOMAIN m \cup {key} |-> IF k = key THEN val ELSE m[k]]

\* Vec::remove of the first output whose index is `index`; the vector as it is when
\* there is none (iter().position() is None).
RemoveIndex(outputs, index) ==
    LET hits == {i \in 1..Len(outputs) : outputs[i].index = index}
    IN  IF hits = {} THEN outputs
        ELSE LET p == CHOOSE i \in hits : \A j \in hits : i <= j
             IN  [i \in 1..(Len(outputs) - 1) |->
                     IF i < p THEN outputs[i] ELSE outputs[i + 1]]

\* The body of the first loop of UtxoSet::append for one input.
SpendInput(set, hash, index) ==
    IF hash \notin DOMAIN set THEN set
    ELSE IF \A i \in 1..Len(set[hash]) : set[hash][i].index # index THEN set
    ELSE LET outputs == RemoveIndex(set[hash], index)
         IN  IF outputs = <<>> THEN MapRemove(set, hash)
             ELSE MapInsert(set, hash, outputs)

RECURSIVE SpendInputs(_, _)
SpendInputs(set, inputs) ==
    IF inputs = <<>> THEN set
    ELSE SpendInputs(SpendInput(set, Head(inputs)[1], Head(inputs)[2]), Tail(inputs))

\* First loop of UtxoSet::append: every input of every transaction, in order.
RECURSIVE RemoveSpent(_, _)
RemoveSpent(set, txns) ==
    IF txns = <<>> THEN set
    ELSE RemoveSpent(SpendInputs(set, get_inputs(Head(txns))), Tail(txns))

\* Second loop of UtxoSet::append: HashMap::insert of every transaction's outputs.
RECURSIVE InsertOutputs(_, _)
InsertOutputs(set, txns) ==
    IF txns = <<>> THEN set
    ELSE InsertOutputs(MapInsert(set, Head(txns).tx_id, Head(txns).tx_out), Tail(txns))

\* UtxoSet::append
UtxoAppend(set, txns) == InsertOutputs(RemoveSpent(set, txns), txns)

\* UtxoSet::get; <<>> is None, <<output>> is Some(output)
UtxoGet(set, hash, index) ==
    IF hash \notin DOMAIN set THEN <<>>
    ELSE LET hits == {i \in 1..Len(set[hash]) : set[hash][i].index = index}
         IN  IF hits = {} THEN <<>>
             ELSE <<set[hash][CHOOSE i \in hits : \A j \in hits : i <= j]>>

RECURSIVE SumValues(_)
SumValues(outs) == IF outs = <<>> THEN 0 ELSE Head(outs).value + SumValues(Tail(outs))

RECURSIVE SumOver(_, _)
SumOver(set, keys) ==
    IF keys = {} THEN 0
    ELSE LET k == CHOOSE x \in keys : TRUE
         IN  SumValues(set[k]) + SumOver(set, keys \ {k})

\* UtxoSet::get_total_balance
get_total_balance(set) == SumOver(set, DOMAIN set)

(***************************************************************************)
(* merkle_tree_root (merkle_tree.rs).                                      *)
(***************************************************************************)
\* One level of _merkle_tree_root: the hashes of the chunks of two, the last
\* identity paired with itself when the count is odd.
MerkleLevel(txns) ==
    [i \in 1..((Len(txns) + 1) \div 2) |->
        IF 2 * i <= Len(txns) THEN sha256d(<<txns[2 * i - 1], txns[2 * i]>>)
        ELSE sha256d(<<txns[2 * i - 1], txns[2 * i - 1]>>)]

\* What the model returns where the code does not return: on the empty list the
\* loop of _merkle_tree_root never runs (chunks() of an empty vector yields nothing,
\* so the `None => return [0u8; 32]` arm is dead), resultados stays empty and the
\* function calls itself on the empty list again, until the stack overflows.
StackOverflow == <<"stack overflow", 0>>

\* _merkle_tree_root
RECURSIVE merkle_rec(_)
merkle_rec(txns) ==
    LET resultados == MerkleLevel(txns)
    IN  IF Len(resultados) = 1 THEN resultados[1]
        ELSE IF Len(resultados) = 0 THEN StackOverflow
        ELSE merkle_rec(resultados)

merkle_tree_root(txns) == IF Len(txns) = 1 THEN txns[1] ELSE merkle_rec(txns)

(***************************************************************************)
(* BlockHeader (block_header.rs).                                          *)
(***************************************************************************)
BlockHeader(prev_block_hash, merkle_root_hash, timestamp, bits, nonce) ==
    [version |-> 1, prev_block_hash |-> prev_block_hash,
     merkle_root_hash |-> merkle_root_hash, timestamp |-> timestamp,
     bits |-> bits, nonce |-> nonce]

\* BlockHeader::hash: double-SHA256 of the 80 bytes of to_bytes
HeaderHash(header) == sha256d(header)

\* The compact target of exponent e and mantissa bytes m1 m2 m3.
Bits(e, m1, m2, m3) == ((e * 256 + m1) * 256 + m2) * 256 + m3

\* u32::to_be_bytes
to_be_bytes(bits) ==
    <<bits \div 16777216, (bits \div 65536) % 256, (bits \div 256) % 256, bits % 256>>

\* The target of BlockHeader::validate_proof_of_work: zeros_to_left zero bytes, the
\* three mantissa bytes, zeros_to_right zero bytes.
target_threshold(bits) ==
    LET nbits == to_be_bytes(bits)
        zeros_to_right == (8 * (nbits[1] - 3)) \div 8
        zeros_to_left == 32 - 3 - zeros_to_right
    IN  Rep(zeros_to_left, 0) \o <<nbits[2], nbits[3], nbits[4]>> \o Rep(zeros_to_right, 0)

\* The comparison loop of validate_proof_of_work: the identity is compared with the
\* target from its last byte down.
CompareToTarget(hash, target) ==
    LET differ == {i \in 0..31 : hash[(31 - i) + 1] # target[i + 1]}
    IN  IF differ = {} THEN "equal"
        ELSE LET i == CHOOSE d \in differ : \A e \in differ : d <= e
             IN  IF hash[(31 - i) + 1] < target[i + 1] THEN "less" ELSE "greater"

\* BlockHeader::validate_proof_of_work: an identity equal to the target is refused.
validate_proof_of_work(header) ==
    CompareToTarget(HashBytes(HeaderHash(header)), target_threshold(header.bits)) = "less"

(***************************************************************************)
(* Block (blockchain/block.rs).  txs is <<>> for None and <<txns>> for     *)
(* Some(Txs {txns}).                                                       *)
(***************************************************************************)
\* Block::default: the genesis block
GenesisBlock ==
    [version |-> 1, hash |-> GENESIS_BLOCK_HASH_VALUE,
     merkle_root_hash |-> GENESIS_BLOCK_MERKLE_ROOT_HASH_VALUE,
     timestamp |-> 1231006505, bits |-> Bits(29, 0, 255, 255), nonce |-> 414098458,
     txs |-> <<>>]

\* Block::from_block_header
from_block_header(new_block) ==
    [version |-> new_block.version, hash |-> HeaderHash(new_block),
     merkle_root_hash |-> new_block.merkle_root_hash, timestamp |-> new_block.timestamp,
     bits |-> new_block.bits, nonce |-> new_block.nonce, txs |-> <<>>]

\* Block::to_block_header
to_block_header(block, prev_block_hash) ==
    [version |-> block.version, prev_block_hash |-> prev_block_hash,
     merkle_root_hash |-> block.merkle_root_hash, timestamp |-> block.timestamp,
     bits |-> block.bits, nonce |-> block.nonce]

\* Block::add_txs
add_txs(block, txs) == [block EXCEPT !.txs = <<txs>>]

\* An entry of the chain file: the 48 bytes of Block::to_bytes
FileEntry(merkle_root_hash, timestamp, bits, nonce) ==
    [version |-> 1, merkle_root_hash |-> merkle_root_hash, timestamp |-> timestamp,
     bits |-> bits, nonce |-> nonce]

\* Block::from_bytes: the identity is the hash of the entry with prev_hash put back
\* after the version.
from_bytes(bytes, prev_hash) ==
    from_block_header([BlockHeader(prev_hash, bytes.merkle_root_hash, bytes.timestamp,
                                   bytes.bits, bytes.nonce) EXCEPT !.version = bytes.version])

\* Block::to_bytes: the 48 bytes of a block, neither its identity nor its
\* transactions.
block_to_bytes(block) ==
    [version |-> block.version, merkle_root_hash |-> block.merkle_root_hash,
     timestamp |-> block.timestamp, bits |-> block.bits, nonce |-> block.nonce]

(***************************************************************************)
(* Blockchain (blockchain.rs).  A Blockchain value is [chain, utxo]; an    *)
(* operation gives the new value and what it returned.                     *)
(***************************************************************************)
\* Blockchain::new
NewBlockchain == [chain |-> <<GenesisBlock>>, utxo |-> EmptyMap]

Tip(c) == Last(c)

\* Blockchain::get_last_header_hash
get_last_header_hash(bc) == Tip(bc.chain).hash

\* Blockchain::get_size
get_size(bc) == Len(bc.chain)

\* A push_block that appends whatever prev_hash is.
PushBlockAlways(b, block, prev_hash) == [b EXCEPT !.chain = Append(b.chain, block)]

\* A push_block that also accepts a header whose parent is the block below the tip.
PushBlockOnFork(b, block, prev_hash) ==
    IF Tip(b.chain).hash = prev_hash
           \/ (Len(b.chain) >= 2 /\ b.chain[Len(b.chain) - 1].hash = prev_hash)
    THEN [b EXCEPT !.chain = Append(b.chain, block)]
    ELSE b

\* Blockchain::push_block.  The scan of the last 100 blocks for a duplicate or a
\* fork only prints; all its outcomes return Ok(()) with the chain as it was.
push_block(bc, block, prev_hash) ==
    IF Tip(bc.chain).hash = prev_hash
    THEN [bc EXCEPT !.chain = Append(bc.chain, block)]
    ELSE bc

\* Blockchain::push
push(bc, new_header) ==
    push_block(bc, from_block_header(new_header), new_header.prev_block_hash)

\* Blockchain::push_full_block: the UTXO set is updated and the transactions are
\* attached to the new block before push_block decides whether the block is kept.
push_full_block(bc, new_block) ==
    LET prev_hash == new_block.block_header.prev_block_hash
        txs == from_raw_txs(new_block.txns)
        block == add_txs(from_block_header(new_block.block_header), txs)
    IN  push_block([bc EXCEPT !.utxo = UtxoAppend(bc.utxo, txs)], block, prev_hash)

\* Position in the chain of the first block, from the tip down, whose identity is
\* `hash`; 0 when there is none.
FindBlock(c, hash) ==
    LET hits == {i \in 1..Len(c) : c[i].hash = hash}
    IN  IF hits = {} THEN 0 ELSE CHOOSE i \in hits : \A j \in hits : i >= j

\* Blockchain::add_block_txs: "Ok", "Err" (merkle root mismatch), or the stack
\* overflow of merkle_tree_root on a block message without transactions.
add_block_txs(bc, block_message) ==
    LET hash == HeaderHash(block_message.block_header)
        txs == from_raw_txs(block_message.txns)
        i == FindBlock(bc.chain, hash)
        merkle_root == merkle_tree_root(get_tx_ids(txs))
    IN  IF i = 0 THEN [bc |-> bc, val |-> "Ok"]
        ELSE IF merkle_root = StackOverflow THEN [bc |-> bc, val |-> "abort"]
        ELSE IF merkle_root = bc.chain[i].merkle_root_hash
        THEN [bc |-> [chain |-> [bc.chain EXCEPT ![i] = add_txs(bc.chain[i], txs)],
                      utxo |-> UtxoAppend(bc.utxo, txs)],
              val |-> "Ok"]
        ELSE [bc |-> bc, val |-> "Err"]

\* The loop of Blockchain::read_from_file over the entries of the file.
RECURSIVE read_entries(_, _, _)
read_entries(bc, entries, last_hash) ==
    IF entries = <<>> THEN bc
    ELSE LET block == from_bytes(Head(entries), last_hash)
         IN  read_entries(push_block(bc, block, last_hash), Tail(entries), block.hash)

\* A save_to_file that writes the genesis block too.
save_with_genesis(b) == [i \in 1..Len(b.chain) |-> block_to_bytes(b.chain[i])]

\* Blockchain::save_to_file into a file that did not exist: the blocks from the
\* oldest to the tip, the genesis block skipped.
save_to_file(b) == [i \in 1..(Len(b.chain) - 1) |-> block_to_bytes(b.chain[i + 1])]

\* Blockchain::read_from_file
read_from_file(entries) == read_entries(NewBlockchain, entries, GENESIS_BLOCK_HASH_VALUE)

\* i64 `+=`: <<"sum", n>>, or <<"panic", 0>> on overflow with overflow checks
\* (`checked`); without them the sum wraps.
AddI64(a, b, checked) ==
    IF Overflows(a + b)
    THEN IF checked THEN <<"panic", 0>> ELSE <<"sum", Wrap(a + b)>>
    ELSE <<"sum", a + b>>

\* The first loop of Blockchain::is_valid_tx, from input i (1-based) on.
RECURSIVE SpendableFrom(_, _, _, _, _)
SpendableFrom(set, tx, i, spendable, checked) ==
    IF i > Len(tx.tx_in) THEN <<"sum", spendable>>
    ELSE LET a == UtxoGet(set, tx.tx_in[i].previous_output.hash,
                          tx.tx_in[i].previous_output.index)
         IN  IF a = <<>> THEN <<"false", 0>>
             ELSE IF ~evaluate(a[1].pkscript, tx, i - 1) THEN <<"false", 0>>
             ELSE LET sum == AddI64(spendable, a[1].value, checked)
                  IN  IF sum[1] = "panic" THEN sum
                      ELSE SpendableFrom(set, tx, i + 1, sum[2], checked)

\* The second loop of Blockchain::is_valid_tx, from output i (1-based) on.
RECURSIVE SpentFrom(_, _, _, _)
SpentFrom(tx, i, spent, checked) ==
    IF i > Len(tx.tx_out) THEN <<"sum", spent>>
    ELSE LET sum == AddI64(spent, tx.tx_out[i].value, checked)
         IN  IF sum[1] = "panic" THEN sum
             ELSE SpentFrom(tx, i + 1, sum[2], checked)

\* Blockchain::is_valid_tx: "true", "false", or "panic"
is_valid_tx(bc, tx, checked) ==
    IF Len(tx.tx_in) = 0 THEN "false"
    ELSE LET spendable == SpendableFrom(bc.utxo, tx, 1, 0, checked)
         IN  IF spendable[1] # "sum" THEN spendable[1]
             ELSE LET spent == SpentFrom(tx, 1, 0, checked)
                  IN  IF spent[1] # "sum" THEN spent[1]
                      ELSE IF spent[2] <= spendable[2] THEN "true" ELSE "false"

(***************************************************************************)
(* The inputs of the model.                                                *)
(***************************************************************************)
\* A transaction without inputs that pays 2 and 1 to key hash 1 (the repository's
\* tests fund their chains with such transactions).
FundTx == RawTransaction(<<>>, <<TxOut(2, P2PKH(1)), TxOut(1, P2PKH(1))>>)

FundOut(i) == <<get_tx_id(FundTx), from_raw_tx(FundTx).tx_out[i + 1]>>

\* It spends the first output of FundTx and pays key hash 2.
SpendTx == create_transaction(<<FundOut(0)>>, <<TxOut(2, P2PKH(2))>>, 1)

\* The transaction lists of block messages: none, one of the two, both in order.
TxLists == {<<>>, <<FundTx>>, <<SpendTx>>, <<FundTx, SpendTx>>}

\* The merkle roots of headers: the root of some list, or [0u8; 32].
MerkleRoots == {merkle_tree_root(get_tx_ids(from_raw_txs(l))) : l \in TxLists \ {<<>>}}
                   \cup {ZeroHash}

\* Compact target 0x03000002: the target is 2.  With nonce 1 the identity is below
\* it, with nonce 3 it is above it.
EasyBits == Bits(3, 0, 0, 2)

Nonces == {1, 3}

\* The previous-block hashes of incoming headers: a block of the chain, or [1u8; 32].
PrevHashes == {chain[i].hash : i \in 1..Len(chain)} \cup {OnesHash}

\* Headers that meet their target with any merkle root, and one that does not.
Headers ==
    {BlockHeader(p, m, 1, EasyBits, 1) : p \in PrevHashes, m \in MerkleRoots}
        \cup {BlockHeader(p, ZeroHash, 1, EasyBits, 3) : p \in PrevHashes}

BlockMessage(block_header, txns) == [block_header |-> block_header, txns |-> txns]

BlockMessages == {BlockMessage(h, l) : h \in Headers, l \in TxLists}

FileEntries ==
    {FileEntry(m, 1, EasyBits, n) :
        m \in {ZeroHash, merkle_tree_root(get_tx_ids(from_raw_txs(<<FundTx>>)))}, n \in Nonces}

Files == SeqsUpTo(FileEntries, MaxFile)

\* The outputs a candidate transaction claims to spend: the two outputs of FundTx, and
\* an output FundTx does not have.
SpendLists ==
    {<<FundOut(0)>>, <<FundOut(1)>>, <<FundOut(0), FundOut(1)>>,
     <<<<get_tx_id(FundTx), Output(2, 1, P2PKH(1))>>>>}

OutLists ==
    {<<TxOut(2, P2PKH(2))>>, <<TxOut(3, P2PKH(2))>>, <<TxOut(1, P2PKH(2)), TxOut(2, P2PKH(1))>>,
     <<TxOut(0 - 1, P2PKH(2)), TxOut(3, P2PKH(1))>>,
     <<TxOut(I64Max, P2PKH(2)), TxOut(I64Max, P2PKH(2))>>}

\* The transactions is_valid_tx is asked about: signed by the owner of the outputs,
\* signed by another key, unsigned, without inputs.
ValidationTxs ==
    {create_transaction(sp, o, 1) : sp \in SpendLists, o \in OutLists}
        \cup {create_transaction(<<FundOut(0)>>, <<TxOut(2, P2PKH(2))>>, 2)}
        \cup {RawTransaction(<<TxIn(Outpoint(get_tx_id(FundTx), 0), <<>>)>>, <<TxOut(1, P2PKH(2))>>)}
        \cup {FundTx}

\* The peer threads.
Peers == {1, 2}

\* A second payment of key 1, of the other output of FundTx.
SpendTx2 == create_transaction(<<FundOut(1)>>, <<TxOut(1, P2PKH(2))>>, 1)

\* The transactions of tx messages.
TxMessages == {SpendTx, SpendTx2}

\* The block messages of peers: on the tip, with the merkle root of their transactions.
NodeBlocks ==
    {BlockMessage(BlockHeader(p, merkle_tree_root(get_tx_ids(from_raw_txs(l))), 1, EasyBits, 1), l) :
        p \in {chain[Len(chain)].hash},
        l \in {<<FundTx>>, <<SpendTx>>, <<SpendTx, SpendTx2>>}}

\* The PayTo commands: key 1 pays the address of key hash 2.
PayerWif == 1

\* A string that is not the WIF of a key.
MalformedWif == 0

PayerWifs == {PayerWif, MalformedWif}

Amounts == {0 - 1, 2, I64Max}

Fees == {0 - 1, 0, 1}

(***************************************************************************)
(* Addresses and keys (utils.rs, script.rs).  The address of key hash k is *)
(* <<"P2PKH", k>>; the WIF of key k is k.                                  *)
(***************************************************************************)
AddressOf(pkhash) == <<"P2PKH", pkhash>>

Unknown == <<"Unknown", 0>>

PayeeAddress == AddressOf(2)

\* A string with a character outside the base58 alphabet.
NotBase58 == <<"NotBase58", 0>>

\* A base58 string that decodes to fewer than four bytes, such as the empty string.
TooShort == <<"TooShort", 0>>

\* The addresses of PayTo commands.
PayeeAddresses == {PayeeAddress, NotBase58}

\* The addresses of AddAddress commands.
WalletAddresses == {AddressOf(2), NotBase58, TooShort}

\* `&address_decoded[(l - 4)..l]` panics when fewer than four bytes were decoded.
checksum_panics(addrs) == addrs[1] = "TooShort"

\* bitcoin_address_to_pkhash: <<>> is Err, <<pkhash>> is Ok(pkhash)
bitcoin_address_to_pkhash(addrs) == IF addrs[1] = "P2PKH" THEN <<addrs[2]>> ELSE <<>>

\* wif_to_private_key: <<>> when the unwrap of the base58 decoding panics
wif_to_private_key(wif) == IF wif = MalformedWif THEN <<>> ELSE <<wif>>

wif_to_pkhash(wif) == hash160(wif)

wif_to_bitcoin_address(wif) == AddressOf(wif_to_pkhash(wif))

\* PubKeyScript::from_address
from_address(address) == P2PKH(address[2])

\* PubKeyScript::get_address
get_address(pkscript) ==
    IF pkscript.kind = "P2PKH" THEN AddressOf(pkscript.hash) ELSE Unknown

\* PubKeyScript::can_be_spent_by
can_be_spent_by(pkscript, hash) == pkscript.kind = "P2PKH" /\ pkscript.hash = hash

\* PubKeyScript::can_be_spent_by_address: "Err" for an address that cannot be decoded
can_be_spent_by_address(script, address) ==
    IF address[1] # "P2PKH" THEN "Err"
    ELSE IF can_be_spent_by(script, address[2]) THEN "true" ELSE "false"

\* UtxoSet::get_outpoint_address
get_outpoint_address(set, previous_output) ==
    LET out == UtxoGet(set, previous_output.hash, previous_output.index)
    IN  IF out = <<>> THEN Unknown ELSE get_address(out[1].pkscript)

\* UtxoSet::by_pkhash, as the set of the <<txid, Output>> it returns; their order is
\* the iteration order of the HashMap.
by_pkhash(set, pkhash) ==
    UNION {{<<h, set[h][i]>> : i \in {j \in 1..Len(set[h]) :
                                          can_be_spent_by(set[h][j].pkscript, pkhash)}} :
           h \in DOMAIN set}

\* UtxoSet::get_balance
get_balance(set, pkhash) ==
    LET outs == by_pkhash(set, pkhash)
        RECURSIVE Sum(_)
        Sum(S) == IF S = {} THEN 0
                  ELSE LET x == CHOOSE y \in S : TRUE IN x[2].value + Sum(S \ {x})
    IN  Sum(outs)

\* Tx::has_pkhash
has_pkhash(tx, pkhash) == \E i \in 1..Len(tx.tx_out) : can_be_spent_by(tx.tx_out[i].pkscript, pkhash)

\* Blockchain::get_tx_history, as the identities of the transactions it returns
RECURSIVE get_tx_history(_, _)
get_tx_history(c, pkhash) ==
    IF c = <<>> THEN <<>>
    ELSE LET txns == IF Head(c).txs = <<>> THEN <<>> ELSE Head(c).txs[1]
         IN  get_tx_ids(SelectSeq(txns, LAMBDA t : has_pkhash(t, pkhash)))
                 \o get_tx_history(Tail(c), pkhash)

(***************************************************************************)
(* NodeApi events (api.rs).  A Tx is given by its identity.                *)
(***************************************************************************)
NewTx(tx_id, payer_addr, addr) == <<"NewTx", tx_id, payer_addr, addr>>

ConfirmedTx(tx_id, addr) == <<"ConfirmedTx", tx_id, addr>>

Balance(balance, addr) == <<"Balance", balance, addr>>

AddPendingBalance(value, addr) == <<"AddPendingBalance", value, addr>>

AddConfirmedBalance(value, addr) == <<"AddConfirmedBalance", value, addr>>

PaymentConfirmation(tx_id, payer_address, addr, amount) ==
    <<"PaymentConfirmation", tx_id, payer_address, addr, amount>>

History(history, addr) == <<"History", history, addr>>

Error(e) == <<"Error", e>>

FinishedConnectingToPeers == <<"FinishedConnectingToPeers">>

\* Loading(a): the f64 a is progress / total.
Loading(progress, total) == <<"Loading", progress, total>>

NodeReady == <<"NodeReady">>

(***************************************************************************)
(* The handlers of peer messages (message_handlers.rs).  A handler works   *)
(* on n = [chain, utxo, mempool, wallet_txs, wallet_addresses, events,     *)
(* sent] and gives the new n and what it returned.                         *)
(***************************************************************************)
\* The AddPendingBalance events of one pass over the outputs of a transaction
\* (a RawTransaction's TxOut) for one address.
PendingEvents(outs, addr) ==
    LET hits == SelectSeq(outs, LAMBDA o : can_be_spent_by_address(o.pk_script, addr) = "true")
    IN  [i \in 1..Len(hits) |-> AddPendingBalance(hits[i].value, addr)]

\* The AddConfirmedBalance events of one pass over the outputs of a stored
\* transaction (a Tx's Output) for one address.
ConfirmedEvents(outs, addr) ==
    LET hits == SelectSeq(outs, LAMBDA o : can_be_spent_by_address(o.pkscript, addr) = "true")
    IN  [i \in 1..Len(hits) |-> AddConfirmedBalance(hits[i].value, addr)]

\* Node::broadcast_transaction: the transaction goes into the mempool; `delivered`
\* tells whether the write to at least one peer succeeded.
broadcast_transaction(n, tx, delivered) ==
    LET m == [n EXCEPT !.mempool = MapInsert(n.mempool, get_tx_id(tx), tx)]
    IN  IF delivered
        THEN [n |-> [m EXCEPT !.sent = m.sent \cup {get_tx_id(tx)}], val |-> "Ok"]
        ELSE [n |-> m, val |-> "Err"]

\* The loop of handle_tx over the wallet addresses from position i on.  `poisoned`
\* tells that the blockchain mutex is poisoned.
RECURSIVE tx_report(_, _, _, _)
tx_report(n, tx, i, poisoned) ==
    IF i > Len(n.wallet_addresses) THEN [n |-> n, val |-> "Ok"]
    ELSE LET addr == n.wallet_addresses[i]
             pending == PendingEvents(tx.tx_out, addr)
             reported == [n EXCEPT !.events = n.events \o pending]
         IN  IF tx.tx_out # <<>> /\ addr[1] # "P2PKH" THEN [n |-> n, val |-> "Err"]
             ELSE IF pending = <<>> THEN tx_report(n, tx, i + 1, poisoned)
             ELSE IF tx.tx_in = <<>> THEN [n |-> reported, val |-> "panic"]
             ELSE IF poisoned THEN [n |-> reported, val |-> "Err"]
             ELSE LET payer_addr ==
                          get_outpoint_address(n.utxo, tx.tx_in[1].previous_output)
                      watched ==
                          [reported EXCEPT
                              !.events = Append(reported.events,
                                                NewTx(get_tx_id(tx), payer_addr, addr)),
                              !.wallet_txs = MapInsert(reported.wallet_txs, get_tx_id(tx), addr)]
                  IN  tx_report(watched, tx, i + 1, poisoned)

\* handle_tx from the insertion on: the mempool check has been made and found the
\* identity unknown.
handle_tx_insert(n, tx, delivered, poisoned) ==
    LET inserted == [n EXCEPT !.mempool = MapInsert(n.mempool, get_tx_id(tx), tx)]
    IN  tx_report(broadcast_transaction(inserted, tx, delivered).n, tx, 1, poisoned)

\* The events of handle_block for a watched transaction: AddConfirmedBalance for every
\* output an address of the wallet can spend; "Err" at an address that cannot be decoded.
RECURSIVE confirmed_balance(_, _, _)
confirmed_balance(n, tx, i) ==
    IF i > Len(n.wallet_addresses) THEN [n |-> n, val |-> "Ok"]
    ELSE LET addr == n.wallet_addresses[i]
             confirmed == ConfirmedEvents(tx.tx_out, addr)
         IN  IF tx.tx_out # <<>> /\ addr[1] # "P2PKH" THEN [n |-> n, val |-> "Err"]
             ELSE confirmed_balance([n EXCEPT !.events = n.events \o confirmed], tx, i + 1)

\* The loop of handle_block over the transactions of the block from position i on:
\* it returns after the first transaction found in wallet_txs.
RECURSIVE block_loop(_, _, _)
block_loop(n, txs, i) ==
    IF i > Len(txs) THEN [n |-> n, val |-> "Ok"]
    ELSE LET tx == txs[i]
         IN  IF tx.tx_id \in DOMAIN n.wallet_txs
             THEN confirmed_balance(
                      [n EXCEPT !.wallet_txs = MapRemove(n.wallet_txs, tx.tx_id),
                                !.events = Append(n.events,
                                                  ConfirmedTx(tx.tx_id, n.wallet_txs[tx.tx_id]))],
                      tx, 1)
             ELSE block_loop([n EXCEPT !.mempool = MapRemove(n.mempool, tx.tx_id)], txs, i + 1)

\* handle_block up to the end of its first statement: the guard of the blockchain
\* mutex is a temporary of that statement.
handle_block_push(n, block_msg) ==
    LET r == push_full_block([chain |-> n.chain, utxo |-> n.utxo], block_msg)
    IN  [n EXCEPT !.chain = r.chain, !.utxo = r.utxo]

(***************************************************************************)
(* The handlers of wallet commands (wallet_handlers.rs, bitcoin_node.rs).  *)
(***************************************************************************)
\* The results of the stable sort_by on the outputs of by_pkhash: every order of them
\* in which the values do not increase and outputs of one transaction with the same
\* value keep their order.
SortedOutputs(set, pkhash) ==
    LET outs == by_pkhash(set, pkhash)
    IN  {s \in [1..Cardinality(outs) -> outs] :
            /\ \A i, j \in DOMAIN s : i # j => s[i] # s[j]
            /\ \A i, j \in DOMAIN s : i < j => s[i][2].value >= s[j][2].value
            /\ \A i, j \in DOMAIN s :
                   (i < j /\ s[i][1] = s[j][1] /\ s[i][2].value = s[j][2].value)
                       => s[i][2].index < s[j][2].index}

\* The loop of Node::get_outs_to_spend from position i on, and its last check.
RECURSIVE get_outs_to_spend(_, _, _, _, _)
get_outs_to_spend(sorted, i, sum, amount, checked) ==
    IF i > Len(sorted)
    THEN [outs |-> sorted, sum |-> sum, val |-> IF sum < amount THEN "Err" ELSE "Ok"]
    ELSE LET s == AddI64(sum, sorted[i][2].value, checked)
         IN  IF s[1] = "panic" THEN [outs |-> <<>>, sum |-> 0, val |-> "panic"]
             ELSE IF s[2] >= amount
             THEN [outs |-> SubSeq(sorted, 1, i), sum |-> s[2], val |-> "Ok"]
             ELSE get_outs_to_spend(sorted, i + 1, s[2], amount, checked)

\* Node::create_transaction: val is "Ok" with the transaction, the message of the
\* error, "panic", or "poison" for a panic with the blockchain mutex held.
Node_create_transaction(n, payer_wif, payee_bitcoin_address, amount, fee, sorted, checked) ==
    LET total == AddI64(amount, fee, checked)
        picked == get_outs_to_spend(sorted, 1, 0, total[2], checked)
        rest == AddI64(picked.sum, 0 - amount, checked)
        change == AddI64(rest[2], 0 - fee, checked)
        outputs ==
            <<TxOut(amount, from_address(payee_bitcoin_address))>> \o
            (IF total[2] < picked.sum
             THEN <<TxOut(change[2], P2PKH(wif_to_pkhash(payer_wif)))>> ELSE <<>>)
        tx == create_transaction(picked.outs, outputs, payer_wif)
        valid == is_valid_tx([chain |-> n.chain, utxo |-> n.utxo], tx, checked)
        none == RawTransaction(<<>>, <<>>)
    IN  IF total[1] = "panic" \/ picked.val = "panic" THEN [tx |-> none, val |-> "panic"]
        ELSE IF picked.val = "Err" THEN [tx |-> none, val |-> "Insufficient balance"]
        ELSE IF checksum_panics(payee_bitcoin_address) THEN [tx |-> none, val |-> "panic"]
        ELSE IF payee_bitcoin_address[1] # "P2PKH"
        THEN [tx |-> none, val |-> "Error parsing base 58"]
        ELSE IF total[2] < picked.sum /\ (rest[1] = "panic" \/ change[1] = "panic")
        THEN [tx |-> none, val |-> "panic"]
        ELSE IF valid = "panic" THEN [tx |-> none, val |-> "poison"]
        ELSE IF valid = "false" THEN [tx |-> none, val |-> "Transaction is not valid"]
        ELSE [tx |-> tx, val |-> "Ok"]

\* The loop of pay_to over the wallet addresses from position i on.
RECURSIVE pending_balance(_, _, _)
pending_balance(n, tx, i) ==
    IF i > Len(n.wallet_addresses) THEN [n |-> n, val |-> "Ok"]
    ELSE LET addr == n.wallet_addresses[i]
             pending == PendingEvents(tx.tx_out, addr)
         IN  IF tx.tx_out # <<>> /\ addr[1] # "P2PKH" THEN [n |-> n, val |-> "Address is invalid"]
             ELSE pending_balance([n EXCEPT !.events = n.events \o pending], tx, i + 1)

\* handle_wallet_messages sends NodeApi::Error for a command that returned Err.
Reported(r) ==
    IF r.val \in {"Ok", "panic", "poison", "deadlock"} THEN r
    ELSE [n |-> [r.n EXCEPT !.events = Append(r.n.events, Error(r.val))], val |-> "Err"]

\* pay_to
pay_to(n, wif, addr, amount, fee, sorted, delivered, checked) ==
    LET payer_address == wif_to_bitcoin_address(wif)
        created == Node_create_transaction(n, wif, addr, amount, fee, sorted, checked)
        tx == created.tx
        watched == [n EXCEPT !.wallet_txs = MapInsert(n.wallet_txs, get_tx_id(tx), payer_address)]
        cast == broadcast_transaction(watched, tx, delivered)
        confirmed ==
            [cast.n EXCEPT !.events =
                Append(cast.n.events,
                       PaymentConfirmation(get_tx_id(tx), payer_address, addr, amount))]
    IN  IF wif_to_private_key(wif) = <<>> THEN [n |-> n, val |-> "panic"]
        ELSE IF created.val # "Ok" THEN [n |-> n, val |-> created.val]
        ELSE IF cast.val = "Err"
        THEN [n |-> cast.n, val |-> "Couldn't send the tx to any peer"]
        ELSE pending_balance(confirmed, tx, 1)

\* The transactions of the mempool with an output the address can spend.
PayingTxs(n, addr) ==
    {tx \in MapValues(n.mempool) :
        \E i \in 1..Len(tx.tx_out) :
            can_be_spent_by_address(tx.tx_out[i].pk_script, addr) = "true"}

\* add_address.  `first` is <<>> when no transaction of the mempool pays the address,
\* else <<tx>>, the first such transaction in the iteration order of the HashMap: at
\* it the thread locks the blockchain mutex it already holds, which blocks it for
\* ever or makes it panic (`relock`).
add_address(n, addr, first, relock) ==
    LET pushed == [n EXCEPT !.wallet_addresses = Append(n.wallet_addresses, addr)]
        pkhash == bitcoin_address_to_pkhash(addr)
        queried ==
            [pushed EXCEPT !.events =
                pushed.events \o
                    <<Balance(get_balance(n.utxo, pkhash[1]), addr),
                      History(get_tx_history(n.chain, pkhash[1]), addr)>>]
        pending == PendingEvents(first[1].tx_out, addr)
    IN  IF checksum_panics(addr) THEN [n |-> pushed, val |-> "panic"]
        ELSE IF pkhash = <<>> THEN [n |-> pushed, val |-> "Error decoding the base58 address"]
        ELSE IF first = <<>> THEN [n |-> queried, val |-> "Ok"]
        ELSE [n |-> [queried EXCEPT !.events = queried.events \o pending], val |-> relock]

(***************************************************************************)
(* The wire (message_header.rs, message.rs).  A message of the peer is     *)
(* [start_string, command, payload_size, checksum] with what its payload   *)
(* holds (the nonce of a ping, the headers of a headers message); on the   *)
(* socket it is HeaderLen units of header followed by payload_size units   *)
(* of payload, each unit tagged with the message it is part of.  HeaderLen *)
(* stands for the 24 bytes of a header, MaxHeaders for the 2000 headers of *)
(* a full headers message.                                                 *)
(***************************************************************************)
START_STRING == <<11, 17, 9, 7>>

MessageHeader(command, payload_size, nonce, headers) ==
    [start_string |-> START_STRING, command |-> command, payload_size |-> payload_size,
     checksum |-> "valid", nonce |-> nonce, headers |-> headers]

\* The units of a message on the socket.
to_bytes(m) ==
    [i \in 1..HeaderLen |-> <<"header", i, m>>] \o [i \in 1..m.payload_size |-> <<"payload", i, m>>]

\* The commands whose payload Message::read_from reads.
PayloadCommands == {"version", "ping", "headers"}

\* The commands Message::read_from accepts from the header alone.
HeaderOnlyCommands == {"verack", "mempool", "sendheaders"}

\* The Message values.
Version == <<"Version">>

Verack == <<"Verack">>

Ping(nonce) == <<"Ping", nonce>>

HeadersMessage(headers) == <<"Headers", Len(headers), headers>>

UnknownMessage(name) == <<"UnknownMessage", name>>

ReadErr(e) == <<"Err", e>>

\* The Message a well-formed message of the peer stands for.
Decoded(m) ==
    CASE m.command = "version" -> Version
      [] m.command = "verack" -> Verack
      [] m.command = "ping" -> Ping(m.nonce)
      [] m.command = "headers" -> HeadersMessage(m.headers)
      [] OTHER -> UnknownMessage(m.command)

\* HeadersMessage::read_from reads the count, then for every header the header and
\* the byte that follows it; BlockHeader::read_from refuses a header that does not
\* meet its target and the rest of the payload stays unread.  The position of the
\* first refused header, 0 when there is none:
FirstRefused(headers) ==
    LET refused == {i \in 1..Len(headers) : ~validate_proof_of_work(headers[i])}
    IN  IF refused = {} THEN 0 ELSE CHOOSE i \in refused : \A j \in refused : i <= j

\* The units of its payload the parser of a command reads.
payload_read(m) ==
    IF m.command = "headers" /\ FirstRefused(m.headers) # 0
    THEN 1 + 2 * (FirstRefused(m.headers) - 1) + 1
    ELSE m.payload_size

\* The value of a payload that was read under a header with the right start string.
payload_value(m) ==
    IF m.command = "headers" /\ FirstRefused(m.headers) # 0
    THEN ReadErr("this block header failed the proof of work")
    ELSE IF m.checksum # "valid" THEN ReadErr("Checksum is not valid")
    ELSE Decoded(m)

\* Message::read_from on the unread units of the socket: the value it returns, the
\* units it read as the header, and the units left unread.  The payload of a command
\* it does not know is left unread; payload_size is not looked at.
read_from(stream) ==
    IF Len(stream) < HeaderLen
    THEN [val |-> ReadErr("io"), head |-> <<>>, rest |-> stream]
    ELSE LET head == SubSeq(stream, 1, HeaderLen)
             rest == SubSeq(stream, HeaderLen + 1, Len(stream))
             m == head[1][3]
             start_string == IF head[1][1] = "header" /\ head[1][2] = 1
                             THEN m.start_string ELSE <<"bytes", head>>
         IN  IF start_string # START_STRING
             THEN [val |-> ReadErr("Header's start string is not valid"),
                   head |-> head, rest |-> rest]
             ELSE IF m.command \in PayloadCommands
             THEN [val |-> payload_value(m), head |-> head,
                   rest |-> SubSeq(rest, payload_read(m) + 1, Len(rest))]
             ELSE IF m.command \in HeaderOnlyCommands
             THEN [val |-> IF m.checksum = "valid" /\ m.payload_size = 0 THEN Decoded(m)
                           ELSE ReadErr("Checksum is not valid"),
                   head |-> head, rest |-> rest]
             ELSE [val |-> UnknownMessage(m.command), head |-> head, rest |-> rest]

\* What the node writes to the socket.
VersionMessage == <<"version">>

VerackMessage == <<"verack">>

MempoolMessage == <<"mempool">>

PongMessage(nonce) == <<"pong", nonce>>

GetHeadersMessage(hash) == <<"getheaders", hash>>

\* A write to the socket; `held` tells whether the thread holds the blockchain mutex.
Written(msg, held) == [msg |-> msg, held |-> held]

(***************************************************************************)
(* The state of the node, from the start of handle_wallet_messages on, and  *)
(* what a step leaves behind.                                              *)
(***************************************************************************)
bc == [chain |-> chain, utxo |-> utxo]

node ==
    [chain |-> chain, utxo |-> utxo, mempool |-> mempool, wallet_txs |-> wallet_txs,
     wallet_addresses |-> wallet_addresses, events |-> events, sent |-> sent]

Becomes(n) ==
    /\ chain' = n.chain
    /\ utxo' = n.utxo
    /\ mempool' = n.mempool
    /\ wallet_txs' = n.wallet_txs
    /\ wallet_addresses' = n.wallet_addresses
    /\ events' = n.events
    /\ sent' = n.sent

Returned(op, arg, val) == [op |-> op, arg |-> arg, val |-> val]

NoTx == RawTransaction(<<>>, <<>>)

\* A peer thread between two messages.  `txs` are the transactions of the block a
\* thread is handling and `height` the size of the chain when it pushed that block.
Idle == [pc |-> "idle", tx |-> NoTx, txs |-> <<>>, height |-> 0]

\* A call of a function without state.
Called(op, arg, val) == <<op, [arg |-> arg, val |-> val]>>

NoCalc == Called("none", <<>>, <<>>)

\* Node::initialize before Node::new has read the configuration.
Booting ==
    [pc |-> "new", nthreads |-> 0, date |-> 0, addrs |-> 0, registered |-> 0, total |-> 0,
     workers |-> <<>>, progress |-> 0, polls |-> 0, result |-> "none"]

\* Nothing was read yet.
NoRead == [val |-> <<"None">>, head |-> <<>>]

\* The socket of a registered peer before handle_messages starts: nothing written.
Quiet == [sock |-> <<>>, handler |-> <<>>, caster |-> <<>>, frames |-> [handler |-> 0, caster |-> 0]]

\* The connection after TcpStream::connect_timeout: nothing written, nothing read.
Connected ==
    [pc |-> "start", stream |-> <<>>, closed |-> FALSE, reads |-> 0, last |-> NoRead,
     out |-> <<>>, pings_available |-> 2, registered |-> FALSE]

Init ==
    /\ chain = NewBlockchain.chain
    /\ utxo = NewBlockchain.utxo
    /\ mempool = EmptyMap
    /\ wallet_txs = EmptyMap
    /\ wallet_addresses = <<>>
    /\ events = <<>>
    /\ sent = {}
    /\ peers = [p \in Peers |-> Idle]
    /\ wallet = [at |-> "running", taken |-> 0]
    /\ ret = Returned("new", <<>>, "Ok")
    /\ conn = Connected
    /\ calc = NoCalc
    /\ boot = Booting
    /\ wire = Quiet

(***************************************************************************)
(* The Blockchain API as a state machine: every call of a public method on *)
(* the one Blockchain value of the node.                                   *)
(***************************************************************************)
\* A panic or a stack overflow ends the caller.
Running == ret.val \notin {"abort", "panic"}

\* Node::new: the chain file is read before anything else happens.
ReadFromFile ==
    /\ ret.op = "new"
    /\ \E entries \in Files :
        LET r == read_from_file(entries)
        IN  /\ chain' = r.chain
            /\ utxo' = r.utxo
            /\ ret' = Returned("read_from_file", <<>>, "Ok")
    /\ UNCHANGED nodeVars

Push ==
    /\ Running
    /\ \E h \in Headers :
        LET r == push(bc, h)
        IN  /\ Len(r.chain) <= MaxChain
            /\ chain' = r.chain
            /\ utxo' = r.utxo
            /\ ret' = Returned("push", <<>>, "Ok")
    /\ UNCHANGED nodeVars

PushFullBlock ==
    /\ Running
    /\ \E b \in BlockMessages :
        LET r == push_full_block(bc, b)
        IN  /\ Len(r.chain) <= MaxChain
            /\ chain' = r.chain
            /\ utxo' = r.utxo
            /\ ret' = Returned("push_full_block", <<>>, "Ok")
    /\ UNCHANGED nodeVars

AddBlockTxs ==
    /\ Running
    /\ \E b \in BlockMessages :
        LET r == add_block_txs(bc, b)
        IN  /\ chain' = r.bc.chain
            /\ utxo' = r.bc.utxo
            /\ ret' = Returned("add_block_txs", <<>>, r.val)
    /\ UNCHANGED nodeVars

IsValidTx ==
    /\ Running
    /\ \E tx \in ValidationTxs, checked \in BOOLEAN :
        /\ ret' = Returned("is_valid_tx", <<>>, is_valid_tx(bc, tx, checked))
        /\ UNCHANGED <<chain, utxo>>
    /\ UNCHANGED nodeVars

\* Node::initialize saves the chain to the chain file.
SaveToFile ==
    /\ Running
    /\ ret' = Returned("save_to_file", save_to_file(bc), "Ok")
    /\ UNCHANGED <<chain, utxo>>
    /\ UNCHANGED nodeVars

Next == ReadFromFile \/ SaveToFile \/ Push \/ PushFullBlock \/ AddBlockTxs \/ IsValidTx

Spec == Init /\ [][Next]_vars

(***************************************************************************)
(* The running node: one thread per peer in handle_messages, one thread in *)
(* handle_wallet_messages.  A step of the model is what a thread does from *)
(* one lock acquisition that can interleave with the others to the next.   *)
(***************************************************************************)
\* The wallet thread blocked in add_address holds the blockchain mutex and a read
\* guard of the mempool; when it panicked there the mutex is poisoned.
BlockchainHeld == wallet.at = "deadlock"

MempoolReadHeld == wallet.at = "deadlock"

Poisoned == wallet.at = "poison"

\* handle_tx up to the mempool check: a known identity ends the handler, an unknown
\* one leaves the thread before mempool.write().
HandleTxCheck(p) ==
    /\ peers[p].pc = "idle"
    /\ \E tx \in TxMessages :
        IF get_tx_id(tx) \in DOMAIN mempool
        THEN UNCHANGED peers
        ELSE peers' = [peers EXCEPT ![p] = [pc |-> "insert", tx |-> tx, txs |-> <<>>, height |-> 0]]
    /\ UNCHANGED <<chain, utxo, mempool, wallet_txs, wallet_addresses, events, sent, wallet, ret,
                   conn, calc, boot, wire>>

\* handle_tx from mempool.write() to its end.
HandleTxInsert(p) ==
    /\ peers[p].pc = "insert"
    /\ ~MempoolReadHeld
    /\ \E delivered \in BOOLEAN :
        LET r == handle_tx_insert(node, peers[p].tx, delivered, Poisoned)
        IN  /\ Becomes(r.n)
            /\ peers' = [peers EXCEPT ![p] = IF r.val = "panic"
                                             THEN [pc |-> "panic", tx |-> NoTx, txs |-> <<>>,
                                                   height |-> 0]
                                             ELSE Idle]
    /\ UNCHANGED <<wallet, ret, conn, calc, boot, wire>>

\* handle_block up to the end of `blockchain.lock()?.push_full_block(block_msg)?`:
\* the mutex is released there.  With the mutex poisoned lock()? ends the handler.
HandleBlockPush(p) ==
    /\ peers[p].pc = "idle"
    /\ ~BlockchainHeld
    /\ \E b \in NodeBlocks :
        IF Poisoned THEN UNCHANGED <<chain, utxo, peers>>
        ELSE LET n == handle_block_push(node, b)
             IN  /\ Len(n.chain) <= MaxChain
                 /\ chain' = n.chain
                 /\ utxo' = n.utxo
                 /\ peers' = [peers EXCEPT ![p] = [pc |-> "block", tx |-> NoTx,
                                                   txs |-> from_raw_txs(b.txns),
                                                   height |-> Len(n.chain)]]
    /\ UNCHANGED <<mempool, wallet_txs, wallet_addresses, events, sent, wallet, ret, conn, calc,
                   boot, wire>>

\* handle_block from wallet_txs.write() and mempool.write() to its end.
HandleBlockEvents(p) ==
    /\ peers[p].pc = "block"
    /\ ~MempoolReadHeld
    /\ Becomes(block_loop(node, peers[p].txs, 1).n)
    /\ peers' = [peers EXCEPT ![p] = Idle]
    /\ UNCHANGED <<wallet, ret, conn, calc, boot, wire>>

\* WalletApi::PayTo
\* The thread of handle_wallet_messages takes the next command.
Takes(val) ==
    wallet' = [at |-> IF val \in {"deadlock", "panic", "poison"} THEN val ELSE "running",
               taken |-> wallet.taken + 1]

CanTake == wallet.at = "running" /\ wallet.taken < MaxCommands

PayTo ==
    /\ CanTake
    /\ \E wif \in PayerWifs, addr \in PayeeAddresses, amount \in Amounts, fee \in Fees,
          delivered \in BOOLEAN, checked \in BOOLEAN :
       \E sorted \in SortedOutputs(utxo, wif_to_pkhash(wif)) :
        LET r == Reported(pay_to(node, wif, addr, amount, fee, sorted, delivered, checked))
        IN  /\ Becomes(r.n)
            /\ ret' = Returned("pay_to", <<amount, fee, wif, addr>>, r.val)
            /\ Takes(r.val)
    /\ UNCHANGED <<peers, conn, calc, boot, wire>>

\* WalletApi::AddAddress
AddAddress ==
    /\ CanTake
    /\ \E addr \in WalletAddresses, relock \in {"deadlock", "poison"} :
       \E first \in IF PayingTxs(node, addr) = {} THEN {<<>>}
                    ELSE {<<tx>> : tx \in PayingTxs(node, addr)} :
        LET r == Reported(add_address(node, addr, first, relock))
        IN  /\ Becomes(r.n)
            /\ ret' = Returned("add_address", addr, r.val)
            /\ Takes(r.val)
    /\ UNCHANGED <<peers, conn, calc, boot, wire>>

NextNode ==
    \/ \E p \in Peers : HandleTxCheck(p) \/ HandleTxInsert(p)
    \/ \E p \in Peers : HandleBlockPush(p) \/ HandleBlockEvents(p)
    \/ PayTo
    \/ AddAddress

SpecNode == Init /\ [][NextNode]_vars

(***************************************************************************)
(* One outbound connection: Node::initialize_connection (the handshake,    *)
(* the getheaders, handle_handshake_messages, Register::save_connection),  *)
(* then the thread Node::listen starts on it (handle_messages).  The block *)
(* and tx messages of the steady loop are the peer threads above; here the *)
(* peer sends the messages of the set-up and messages the node refuses.    *)
(***************************************************************************)
PeerVersion == MessageHeader("version", 1, 0, <<>>)

PeerVerack == MessageHeader("verack", 0, 0, <<>>)

PeerPing(nonce) == MessageHeader("ping", 1, nonce, <<>>)

\* The payload of a headers message: the count, then every header and the byte after it.
PeerHeaders(headers) == MessageHeader("headers", 1 + 2 * Len(headers), 0, headers)

\* A command Message::read_from does not know ("pong", "notfound", "alert", ...).
PeerUnknown(payload_size) == MessageHeader("alert", payload_size, 0, <<>>)

PingNonces == {1, 2}

\* The header that meets its target on top of `prev`, and the one that does not.
NextHeader(prev) == BlockHeader(prev, ZeroHash, 1, EasyBits, 1)

RefusedHeader(prev) == BlockHeader(prev, ZeroHash, 1, EasyBits, 3)

RECURSIVE Chained(_, _)
\* n headers, the first on top of `prev`, every other on top of the one before it.
Chained(prev, n) ==
    IF n = 0 THEN <<>>
    ELSE <<NextHeader(prev)>> \o Chained(from_block_header(NextHeader(prev)).hash, n - 1)

\* The header lists of the peer: none, one on the tip, a full message on the tip, one
\* that is not on the tip, and lists with a header that does not meet its target.
HeaderLists ==
    LET tip == Tip(chain).hash
    IN  {<<>>, Chained(tip, 1), Chained(tip, MaxHeaders), Chained(OnesHash, 1),
         <<RefusedHeader(tip)>>, <<RefusedHeader(tip)>> \o Chained(tip, 1)}

\* What the peer sends: the messages of the protocol, commands the node does not know
\* with payloads of several sizes, a payload that does not match its checksum, a
\* header of another network.
PeerMessages ==
    {PeerVersion, PeerVerack}
        \cup {PeerPing(n) : n \in PingNonces}
        \cup {PeerHeaders(l) : l \in HeaderLists}
        \cup {PeerUnknown(k) : k \in 0..HeaderLen}
        \cup {[PeerPing(1) EXCEPT !.checksum = "invalid"],
              [PeerVerack EXCEPT !.start_string = <<0, 0, 0, 0>>]}

\* The peer closes the connection, or nothing arrives before the read timeout.
Closed == [PeerVerack EXCEPT !.command = "", !.start_string = <<>>]

Arrivals == PeerMessages \cup {Closed}

\* One call of Message::read_from on the connection.  The next message of the peer
\* arrives when the socket holds less than a header.
Receive(c, arrival) ==
    IF c.closed \/ (Len(c.stream) < HeaderLen /\ arrival = Closed)
    THEN [val |-> ReadErr("io"), head |-> <<>>, stream |-> <<>>, closed |-> TRUE]
    ELSE LET r == read_from(IF Len(c.stream) < HeaderLen
                            THEN c.stream \o to_bytes(arrival) ELSE c.stream)
         IN  [val |-> r.val, head |-> r.head, stream |-> r.rest, closed |-> FALSE]

\* A step that returns before it reads.
NotRead(c) == [val |-> NoRead.val, head |-> <<>>, stream |-> c.stream, closed |-> c.closed]

\* The connection after a step that read r, wrote `out` and goes on at pc.
After(c, pc, out, r) ==
    [c EXCEPT !.pc = pc, !.out = out, !.last = [val |-> r.val, head |-> r.head],
              !.stream = r.stream, !.closed = r.closed,
              !.reads = IF r.val = NoRead.val THEN @ ELSE @ + 1]

\* A handshake that takes whatever message was decoded for the version message.
AnyMessage(m) == m[1] # "Err"

\* The two matches of Node::handshake.
is_version(m) == m = Version

is_verack(m) == m = Verack

peerOther ==
    <<utxo, mempool, wallet_txs, wallet_addresses, events, sent, peers, wallet, ret, calc, boot, wire>>

\* Node::handshake, first half: write version, read, require a version message.
HandshakeVersion ==
    /\ conn.pc = "start"
    /\ \E wrote \in BOOLEAN, arrival \in Arrivals :
        IF ~wrote THEN conn' = After(conn, "failed", <<>>, NotRead(conn))
        ELSE LET r == Receive(conn, arrival)
             IN  conn' = After(conn, IF is_version(r.val) THEN "verack" ELSE "failed",
                               <<Written(VersionMessage, FALSE)>>, r)
    /\ UNCHANGED <<chain, peerOther>>

\* Node::handshake, second half: write verack, read, require a verack message.
HandshakeVerack ==
    /\ conn.pc = "verack"
    /\ \E wrote \in BOOLEAN, arrival \in Arrivals :
        IF ~wrote THEN conn' = After(conn, "failed", <<>>, NotRead(conn))
        ELSE LET r == Receive(conn, arrival)
             IN  conn' = After(conn, IF is_verack(r.val) THEN "getheaders" ELSE "failed",
                               <<Written(VerackMessage, FALSE)>>, r)
    /\ UNCHANGED <<chain, peerOther>>

\* Node::initialize_connection after the handshake: the blockchain is locked, the
\* getheaders for the tip is written, the guard is dropped.
SendGetHeaders ==
    /\ conn.pc = "getheaders"
    /\ \E wrote \in BOOLEAN :
        conn' = IF wrote
                THEN After([conn EXCEPT !.pings_available = 2], "sync",
                           <<Written(GetHeadersMessage(get_last_header_hash(bc)), TRUE)>>,
                           NotRead(conn))
                ELSE After(conn, "failed", <<>>, NotRead(conn))
    /\ UNCHANGED <<chain, peerOther>>

RECURSIVE push_all(_, _)
\* The loop of handle_headers.
push_all(b, headers) ==
    IF headers = <<>> THEN b ELSE push_all(push(b, Head(headers)), Tail(headers))

\* handle_headers: under the guard of the blockchain every header is pushed and,
\* after a full message, the getheaders for the new tip is written.
handle_headers(b, msg, wrote) ==
    LET after == push_all(b, msg[3])
        full == msg[2] = MaxHeaders
    IN  [bc |-> after,
         out |-> IF full /\ wrote
                 THEN <<Written(GetHeadersMessage(get_last_header_hash(after)), TRUE)>>
                 ELSE <<>>,
         val |-> IF full /\ ~wrote THEN "Err" ELSE "Ok",
         count |-> msg[2]]

\* One iteration of the loop of handle_handshake_messages.
SyncStep ==
    /\ conn.pc = "sync"
    /\ conn.reads < MaxReads
    /\ \E wrote \in BOOLEAN, arrival \in Arrivals :
        LET r == Receive(conn, arrival)
            m == r.val
            h == handle_headers(bc, m, wrote)
        IN  CASE m[1] = "Err" ->
                    /\ conn' = After(conn, "failed", <<>>, r)
                    /\ UNCHANGED chain
              [] m[1] = "Headers" ->
                    /\ Len(h.bc.chain) <= MaxChain
                    /\ chain' = h.bc.chain
                    /\ conn' = After(conn, IF h.val = "Err" THEN "failed"
                                           ELSE IF h.count < MaxHeaders THEN "synced"
                                           ELSE "sync", h.out, r)
              [] m[1] = "Ping" ->
                    /\ conn' = IF ~wrote THEN After(conn, "failed", <<>>, r)
                               ELSE After([conn EXCEPT !.pings_available = @ - 1],
                                          IF conn.pings_available - 1 = 0 THEN "synced"
                                          ELSE "sync",
                                          <<Written(PongMessage(m[2]), FALSE)>>, r)
                    /\ UNCHANGED chain
              [] OTHER ->
                    /\ conn' = After(conn, "sync", <<>>, r)
                    /\ UNCHANGED chain
    /\ UNCHANGED peerOther

\* Register::save_connection: the entry is inserted unless peer_addr fails.
SaveConnection ==
    /\ conn.pc = "synced"
    /\ \E peer_addr \in BOOLEAN :
        conn' = IF peer_addr
                THEN After([conn EXCEPT !.registered = TRUE], "registered", <<>>, NotRead(conn))
                ELSE After(conn, "failed", <<>>, NotRead(conn))
    /\ UNCHANGED <<chain, peerOther>>

\* handle_messages before its loop: the read timeout is removed and the mempool
\* message is written; a failure of the write is printed and the thread goes on.
Listen ==
    /\ conn.pc = "registered"
    /\ \E set_read_timeout \in BOOLEAN, wrote \in BOOLEAN :
        conn' = IF ~set_read_timeout THEN After(conn, "broke", <<>>, NotRead(conn))
                ELSE After(conn, "loop",
                           IF wrote THEN <<Written(MempoolMessage, FALSE)>> ELSE <<>>,
                           NotRead(conn))
    /\ UNCHANGED <<chain, peerOther>>

\* One iteration of the loop of handle_messages: a failed read starts the next
\* iteration, the result of a handler is logged, nothing leaves the loop.
LoopStep ==
    /\ conn.pc = "loop"
    /\ conn.reads < MaxReads
    /\ \E wrote \in BOOLEAN, arrival \in Arrivals :
        LET r == Receive(conn, arrival)
            m == r.val
            h == handle_headers(bc, m, wrote)
        IN  CASE m[1] = "Headers" ->
                    /\ Len(h.bc.chain) <= MaxChain
                    /\ chain' = h.bc.chain
                    /\ conn' = After(conn, "loop", h.out, r)
              [] m[1] = "Ping" ->
                    /\ conn' = After(conn, "loop",
                                     IF wrote THEN <<Written(PongMessage(m[2]), FALSE)>>
                                     ELSE <<>>, r)
                    /\ UNCHANGED chain
              [] OTHER ->
                    /\ conn' = After(conn, "loop", <<>>, r)
                    /\ UNCHANGED chain
    /\ UNCHANGED peerOther

NextPeer ==
    \/ HandshakeVersion
    \/ HandshakeVerack
    \/ SendGetHeaders
    \/ SyncStep
    \/ SaveConnection
    \/ Listen
    \/ LoopStep

SpecPeer == Init /\ [][NextPeer]_vars

(***************************************************************************)
(* Node::initialize: the connections to the configured peers, then the     *)
(* block download (multi_threaded_block_download, download_blocks).        *)
(***************************************************************************)
bootRest == <<mempool, wallet_txs, wallet_addresses, sent, peers, ret, conn, calc, wire>>

bootOther == <<bootRest, events, wallet>>

\* The progress the polling loop waits for, in hundredths.
LOADED == 98

\* The header a peer sends in the header sync: newer than the genesis block, with the
\* merkle root of the block <<FundTx>>.
SyncedHeader(prev) ==
    BlockHeader(prev, merkle_tree_root(get_tx_ids(from_raw_txs(<<FundTx>>))),
                GenesisBlock.timestamp + 1, EasyBits, 1)

RECURSIVE SyncedHeaders(_, _)
SyncedHeaders(prev, n) ==
    IF n = 0 THEN <<>>
    ELSE <<SyncedHeader(prev)>> \o SyncedHeaders(from_block_header(SyncedHeader(prev)).hash, n - 1)

\* The values of block_downloading_timestamp: the time of the synced headers, and a
\* later one.
Dates == {GenesisBlock.timestamp + 1, GenesisBlock.timestamp + 2}

\* Blockchain::get_hashes_since: the chain is walked from the tip down and the result
\* reversed, which gives the identities oldest first.
get_hashes_since(b, date) ==
    LET RECURSIVE Since(_)
        Since(i) == IF i > Len(b.chain) THEN <<>>
                    ELSE (IF b.chain[i].timestamp >= date THEN <<b.chain[i].hash>> ELSE <<>>)
                             \o Since(i + 1)
    IN  Since(1)

\* slice::chunks(chunk_size) for chunk_size > 0.
chunks(hashes, chunk_size) ==
    [k \in 1..((Len(hashes) + chunk_size - 1) \div chunk_size) |->
        SubSeq(hashes, (k - 1) * chunk_size + 1,
               IF k * chunk_size < Len(hashes) THEN k * chunk_size ELSE Len(hashes))]

\* A worker of the download: the identities it asks for, the blocks it received.
Worker(hashes) == [hashes |-> hashes, blocks |-> <<>>, at |-> "running"]

\* multi_threaded_block_download up to its polling loop, with `streams` streams from
\* the register: "chunks" when chunks(0) panics, "streams" or "results" when the
\* unwrap of a pop panics, else the workers in the order they are spawned.
spawn_workers(hashes, nthreads, streams) ==
    LET chunk_size == (Len(hashes) + nthreads - 1) \div nthreads
        results == chunks(hashes, chunk_size)
    IN  IF chunk_size = 0 THEN [panic |-> "chunks", workers |-> <<>>]
        ELSE IF streams < nthreads /\ streams <= Len(results)
        THEN [panic |-> "streams", workers |-> [k \in 1..streams |-> Worker(results[k])]]
        ELSE IF Len(results) < nthreads
        THEN [panic |-> "results", workers |-> [k \in 1..Len(results) |-> Worker(results[k])]]
        ELSE [panic |-> "none", workers |-> [k \in 1..nthreads |-> Worker(results[k])]]

\* The block message a peer sends for the block at position i of the chain.
BlockFor(i) == BlockMessage(to_block_header(chain[i], chain[i - 1].hash), <<FundTx>>)

\* Node::new: the configuration is read and the endpoint resolved.
NewNode ==
    /\ boot.pc = "new"
    /\ \E nthreads \in 1..MaxThreads, date \in Dates, addrs \in 0..MaxAddrs :
        boot' = [boot EXCEPT !.pc = "connect", !.nthreads = nthreads, !.date = date,
                             !.addrs = addrs]
    /\ UNCHANGED <<chain, utxo, bootOther>>

\* One iteration of the loop of Node::initialize: initialize_connection registers the
\* peer or fails; the headers the peer sent before are in the chain either way.
Connect ==
    /\ boot.pc = "connect"
    /\ boot.addrs > 0
    /\ \E registered \in BOOLEAN, n \in 0..(MaxChain - Len(chain)) :
        /\ chain' = push_all(bc, SyncedHeaders(Tip(chain).hash, n)).chain
        /\ boot' = [boot EXCEPT !.addrs = @ - 1,
                                !.registered = IF registered THEN @ + 1 ELSE @]
    /\ UNCHANGED <<utxo, bootOther>>

\* Node::initialize after its loop, and multi_threaded_block_download up to its
\* polling loop.
StartDownload ==
    /\ boot.pc = "connect"
    /\ boot.addrs = 0
    /\ LET hashes == get_hashes_since(bc, boot.date)
           streams == IF boot.registered < boot.nthreads THEN boot.registered
                      ELSE boot.nthreads
           spawned == spawn_workers(hashes, boot.nthreads, streams)
       IN  boot' = [boot EXCEPT !.pc = IF spawned.panic = "none" THEN "poll" ELSE "panic",
                                !.result = spawned.panic,
                                !.total = Len(hashes),
                                !.workers = spawned.workers]
    /\ events' = Append(events, FinishedConnectingToPeers)
    /\ UNCHANGED <<chain, utxo, bootRest, wallet>>

\* Position in the chain of the block with identity `hash`.
PositionOf(hash) == CHOOSE i \in 1..Len(chain) : chain[i].hash = hash

\* One iteration of the loop of download_blocks in worker w: the peer closed the
\* connection or peek failed ("closed"), Message::read_from failed ("error"), a
\* message that is no block arrived ("other"), or the next block arrived ("block").
Download(w) ==
    /\ boot.pc \in {"poll", "join"}
    /\ w <= Len(boot.workers)
    /\ boot.workers[w].at = "running"
    /\ \E arrival \in {"closed", "error", "other", "block"} :
        LET me == boot.workers[w]
            blocks == Append(me.blocks, BlockFor(PositionOf(me.hashes[Len(me.blocks) + 1])))
        IN  boot' =
                CASE arrival = "closed" -> [boot EXCEPT !.workers[w].at = "ok"]
                  [] arrival = "error" -> [boot EXCEPT !.workers[w].at = "err"]
                  [] arrival = "other" -> boot
                  [] arrival = "block" ->
                        [boot EXCEPT !.workers[w].blocks = blocks,
                                     !.workers[w].at = IF Len(blocks) = Len(me.hashes)
                                                       THEN "ok" ELSE "running",
                                     !.progress = @ + 1]
    /\ UNCHANGED <<chain, utxo, bootOther>>

\* One iteration of the polling loop: the progress is read and sent after a sleep,
\* and the loop is left when progress / total has reached 0.98.  The iterations are
\* counted, and their Loading events kept, up to MaxPolls; a later iteration that
\* stays in the loop changes nothing.
Poll ==
    /\ boot.pc = "poll"
    /\ boot' = [boot EXCEPT !.polls = IF @ < MaxPolls THEN @ + 1 ELSE @,
                            !.pc = IF boot.progress * 100 >= LOADED * boot.total
                                   THEN "join" ELSE "poll"]
    /\ events' = IF boot.polls < MaxPolls \/ boot'.pc = "join"
                 THEN Append(events, Loading(boot.progress, boot.total))
                 ELSE events
    /\ UNCHANGED <<chain, utxo, bootRest, wallet>>

\* The blocks of the workers in the order of the threads; <<>> for a worker that
\* returned an error.
RECURSIVE Joined(_, _)
Joined(workers, k) ==
    IF k > Len(workers) THEN <<>> ELSE workers[k].blocks \o Joined(workers, k + 1)

RECURSIVE add_all(_, _)
\* The last loop of multi_threaded_block_download: the first error ends it.
add_all(b, blocks) ==
    IF blocks = <<>> THEN [bc |-> b, val |-> "Ok"]
    ELSE LET r == add_block_txs(b, Head(blocks))
         IN  IF r.val # "Ok" THEN r ELSE add_all(r.bc, Tail(blocks))

\* The first worker whose join returns an error, when every worker before it has
\* returned its blocks; 0 when there is none.
FirstErr(workers) ==
    LET errs == {k \in 1..Len(workers) : /\ workers[k].at = "err"
                                         /\ \A j \in 1..(k - 1) : workers[j].at = "ok"}
    IN  IF errs = {} THEN 0 ELSE CHOOSE k \in errs : TRUE

\* multi_threaded_block_download after its polling loop: the workers are joined in
\* the order they were spawned, the first error of a worker is returned, else the
\* blocks are added to the chain.
JoinWorkers ==
    /\ boot.pc = "join"
    /\ IF FirstErr(boot.workers) # 0
       THEN /\ boot' = [boot EXCEPT !.pc = "done", !.result = "Err"]
            /\ UNCHANGED <<chain, utxo>>
       ELSE /\ \A w \in 1..Len(boot.workers) : boot.workers[w].at = "ok"
            /\ LET r == add_all(bc, Joined(boot.workers, 1))
               IN  /\ boot' = [boot EXCEPT !.pc = "done", !.result = r.val]
                   /\ chain' = r.bc.chain
                   /\ utxo' = r.bc.utxo
    /\ UNCHANGED bootOther

\* Node::listen after Node::initialize has returned Ok: handle_wallet_messages sends
\* NodeReady before it takes the first command.
ListenToWallet ==
    /\ boot.pc = "done"
    /\ boot.result = "Ok"
    /\ boot' = [boot EXCEPT !.pc = "listen"]
    /\ events' = Append(events, NodeReady)
    /\ UNCHANGED <<chain, utxo, bootRest, wallet>>

\* get_balance of the wallet commands.
handle_get_balance(n, addr) ==
    LET pkhash == bitcoin_address_to_pkhash(addr)
    IN  IF checksum_panics(addr) THEN [n |-> n, val |-> "panic"]
        ELSE IF pkhash = <<>> THEN [n |-> n, val |-> "Error decoding the base58 address"]
        ELSE [n |-> [n EXCEPT !.events = Append(n.events,
                                                Balance(get_balance(n.utxo, pkhash[1]), addr))],
              val |-> "Ok"]

\* WalletApi::GetBalance
GetBalance ==
    /\ boot.pc = "listen"
    /\ CanTake
    /\ \E addr \in WalletAddresses :
        LET r == Reported(handle_get_balance(node, addr))
        IN  /\ events' = r.n.events
            /\ Takes(r.val)
    /\ UNCHANGED <<chain, utxo, bootRest, boot>>

NextBoot ==
    \/ NewNode
    \/ Connect
    \/ StartDownload
    \/ (\E w \in 1..MaxThreads : Download(w))
    \/ Poll
    \/ JoinWorkers
    \/ ListenToWallet
    \/ GetBalance

SpecBoot == Init /\ [][NextBoot]_vars

\* The driver thread and every worker thread keep running: a step of the polling
\* loop, of the joins or of a worker that stays possible is eventually taken.
SpecBootLive ==
    /\ SpecBoot
    /\ WF_vars(Poll)
    /\ WF_vars(JoinWorkers)
    /\ WF_vars(ListenToWallet)
    /\ \A w \in 1..MaxThreads : WF_vars(Download(w))

(***************************************************************************)
(* The functions without state, each called on inputs of a bounded set.    *)
(***************************************************************************)
calcOther ==
    <<chain, utxo, mempool, wallet_txs, wallet_addresses, events, sent, peers, wallet, ret, conn,
      boot, wire>>

\* A transaction without inputs that pays i64::MAX and 1 to key hash 1.
BigFundTx == RawTransaction(<<>>, <<TxOut(I64Max, P2PKH(1)), TxOut(1, P2PKH(1))>>)

\* The UTXO sets transactions are created on: after FundTx, after FundTx and SpendTx,
\* after BigFundTx.
FundedSets ==
    {UtxoAppend(EmptyMap, from_raw_txs(l)) : l \in {<<FundTx>>, <<FundTx, SpendTx>>, <<BigFundTx>>}}

Keys == {1, 2}

\* The lists of one or two live outputs of `set` that pay `pkhash`: a list of two may
\* name the same output twice.
SpendableLists(set, pkhash) ==
    LET live == by_pkhash(set, pkhash)
    IN  {<<a>> : a \in live} \cup (live \X live)

\* The outputs of the created transaction: one of any value from 0 on, or two.
PayLists ==
    {<<TxOut(v, P2PKH(2))>> : v \in 0..I64Max}
        \cup {<<TxOut(v, P2PKH(2)), TxOut(w, P2PKH(1))>> : v \in 0..2, w \in 0..2}

\* The message signed for input i (1-based) when the transaction is created: the loop
\* of create_transaction has set the signature scripts of the inputs before i.
signed_message(tx, out_to_spend, i) ==
    LET so_far == [tx EXCEPT !.tx_in = [j \in 1..Len(tx.tx_in) |->
                       IF j < i THEN tx.tx_in[j] ELSE TxIn(tx.tx_in[j].previous_output, <<>>)]]
    IN  sha256d(serialize(so_far, i - 1, out_to_spend[i][2].pkscript))

\* The message OP_CHECKSIG verifies for input i (1-based) in is_valid_tx: the spent
\* script is the one of the output the UTXO set holds for the input.
verified_message(set, tx, i) ==
    LET a == UtxoGet(set, tx.tx_in[i].previous_output.hash, tx.tx_in[i].previous_output.index)
    IN  IF a = <<>> THEN <<>> ELSE sha256d(serialize(tx, i - 1, a[1].pkscript))

\* RawTransaction::create_transaction, then Blockchain::is_valid_tx on its result.
CreateTransaction ==
    /\ calc = NoCalc
    /\ \E set \in FundedSets, key \in Keys, tx_out \in PayLists, checked \in BOOLEAN :
        \E out_to_spend \in SpendableLists(set, wif_to_pkhash(key)) :
            LET tx == create_transaction(out_to_spend, tx_out, key)
            IN  calc' = Called("create_transaction",
                               [set |-> set, out_to_spend |-> out_to_spend, tx_out |-> tx_out,
                                key |-> key, checked |-> checked],
                               [tx |-> tx,
                                valid |-> is_valid_tx([chain |-> chain, utxo |-> set], tx, checked),
                                signed |-> [i \in 1..Len(tx.tx_in) |->
                                               signed_message(tx, out_to_spend, i)],
                                verified |-> [i \in 1..Len(tx.tx_in) |->
                                                 verified_message(set, tx, i)]])
    /\ UNCHANGED calcOther

\* A payment of key 1 that leaves the whole first output of FundTx as fee: it has no
\* output.
NoOutTx == create_transaction(<<FundOut(0)>>, <<>>, 1)

\* The transaction lists of the blocks applied to a UTXO set.
AppendLists == SeqsUpTo({FundTx, SpendTx, SpendTx2, NoOutTx}, 2) \ {<<>>}

\* UtxoSet::append, as push_full_block and add_block_txs call it.
UtxoSetAppend ==
    /\ calc = NoCalc
    /\ \E set \in FundedSets \cup {EmptyMap}, txns \in AppendLists :
        calc' = Called("append", [set |-> set, txns |-> txns],
                       UtxoAppend(set, from_raw_txs(txns)))
    /\ UNCHANGED calcOther

\* usize and u64 values are kept as four 16-bit limbs, most significant first, so
\* that the 64-bit ends of the ranges are inside the model.
LimbMax == 65535

U8_MAX == 255

Limb(n) == <<0, 0, 0, n>>

\* n < u8::max_value(), n < u16::max_value(), n < u32::max_value().
BelowU8Max(n) == n[1] = 0 /\ n[2] = 0 /\ n[3] = 0 /\ n[4] < U8_MAX
BelowU16Max(n) == n[1] = 0 /\ n[2] = 0 /\ n[3] = 0 /\ n[4] < LimbMax
BelowU32Max(n) == n[1] = 0 /\ n[2] = 0 /\ ~(n[3] = LimbMax /\ n[4] = LimbMax)

CompactSizeOf(kind, limbs) == [kind |-> kind, limbs |-> limbs]

\* CompactSize::new_from_usize; the casts keep the low limbs.
new_from_usize(n) ==
    IF BelowU8Max(n) THEN CompactSizeOf("U8", <<n[4] % 256>>)
    ELSE IF BelowU16Max(n) THEN CompactSizeOf("U16", <<n[4]>>)
    ELSE IF BelowU32Max(n) THEN CompactSizeOf("U32", <<n[3], n[4]>>)
    ELSE CompactSizeOf("U64", n)

\* The little-endian bytes of limbs given most significant first.
RECURSIVE limbs_le(_)
limbs_le(limbs) ==
    IF limbs = <<>> THEN <<>>
    ELSE limbs_le(Tail(limbs)) \o <<Head(limbs) % 256, Head(limbs) \div 256>>

\* The limbs, most significant first, of little-endian bytes.
RECURSIVE from_le_bytes(_)
from_le_bytes(bytes) ==
    IF bytes = <<>> THEN <<>>
    ELSE from_le_bytes(Tail(Tail(bytes))) \o <<bytes[1] + 256 * bytes[2]>>

\* CompactSize::to_le_bytes.
compact_to_le_bytes(size) ==
    CASE size.kind = "U8" -> <<size.limbs[1]>>
      [] size.kind = "U16" -> <<253>> \o limbs_le(size.limbs)
      [] size.kind = "U32" -> <<254>> \o limbs_le(size.limbs)
      [] size.kind = "U64" -> <<255>> \o limbs_le(size.limbs)

\* CompactSize::read_from on the bytes of a stream: the value and the bytes left.
compact_read_from(stream) ==
    LET err == [val |-> "Err", size |-> CompactSizeOf("U8", <<0>>), rest |-> <<>>]
        read(kind, n) ==
            IF Len(stream) < 1 + n THEN err
            ELSE [val |-> "Ok",
                  size |-> CompactSizeOf(kind, from_le_bytes(SubSeq(stream, 2, 1 + n))),
                  rest |-> SubSeq(stream, 2 + n, Len(stream))]
    IN  IF stream = <<>> THEN err
        ELSE IF stream[1] <= 252
        THEN [val |-> "Ok", size |-> CompactSizeOf("U8", <<stream[1]>>), rest |-> Tail(stream)]
        ELSE IF stream[1] = 253 THEN read("U16", 2)
        ELSE IF stream[1] = 254 THEN read("U32", 4)
        ELSE read("U64", 8)

\* CompactSize::into_inner: the value as a usize.
into_inner(size) ==
    [i \in 1..4 |-> IF i + Len(size.limbs) > 4 THEN size.limbs[i + Len(size.limbs) - 4] ELSE 0]

\* The counts: the ends of the four ranges and their neighbours.
Counts ==
    {<<a, b, c, d>> : a \in {0, LimbMax}, b \in {0, 1}, c \in {0, 1, LimbMax},
                      d \in {0, 1, 252, 253, 254, 255, 256, LimbMax - 1, LimbMax}}

\* A count is built, written and read back.
CompactSizeRoundTrip ==
    /\ calc = NoCalc
    /\ \E n \in Counts :
        LET size == new_from_usize(n)
            bytes == compact_to_le_bytes(size)
        IN  calc' = Called("compact_size", n,
                           [size |-> size, bytes |-> bytes, read |-> compact_read_from(bytes)])
    /\ UNCHANGED calcOther

\* The lists of identities: up to MaxLeaves identities of transactions.
MerkleLists == SeqsUpTo({from_raw_tx(tx).tx_id : tx \in {FundTx, SpendTx}}, MaxLeaves)

\* merkle_tree_root is called on a list of identities.
MerkleTreeRoot ==
    /\ calc = NoCalc
    /\ \E txns \in MerkleLists :
        calc' = Called("merkle_tree_root", txns, merkle_tree_root(txns))
    /\ UNCHANGED calcOther

\* The compact targets: the least and the greatest exponent of the range 3..32 and
\* one between, mantissas with and without the bit 0x00800000.
CompactTargets ==
    {Bits(e, m1, 0, m3) : e \in {3, 4, 32}, m1 \in {0, 1, 128}, m3 \in {0, 2}}

\* Identities, hash[0] first: bytes 0, 2, 3 and 31 vary, the others are zero.
Identities ==
    {<<a>> \o <<0>> \o <<b, c>> \o Rep(27, 0) \o <<d>> :
        a \in {0, 1, 2, 3}, b \in {0, 1, 128}, c \in {0, 1}, d \in {0, 1, 128}}

\* validate_proof_of_work on a header with these bits and this identity.
ValidateProofOfWork ==
    /\ calc = NoCalc
    /\ \E bits \in CompactTargets, hash \in Identities :
        calc' = Called("validate_proof_of_work", [bits |-> bits, hash |-> hash],
                       CompareToTarget(hash, target_threshold(bits)) = "less")
    /\ UNCHANGED calcOther

\* u32::to_le_bytes and u32::from_le_bytes, for values below 2^31.
u32_to_le_bytes(v) == <<v % 256, (v \div 256) % 256, (v \div 65536) % 256, v \div 16777216>>
u32_from_le_bytes(b) == b[1] + 256 * b[2] + 65536 * b[3] + 16777216 * (b[4] % 128)

\* The bytes of a list of byte strings, one after the other.
RECURSIVE Flat(_)
Flat(parts) == IF parts = <<>> THEN <<>> ELSE Head(parts) \o Flat(Tail(parts))

\* The first four bytes of the double hash of a payload.
checksum_of(bytes) == <<"sha256d", bytes>>

\* The elements a decoder reads after a count: `count` times `width` bytes of the
\* stream, which is too short ("Err") if they are not there.  A count beyond 65535
\* is beyond every stream of the model.
read_n(stream, size, width) ==
    LET count == into_inner(size)
        n == count[4]
    IN  IF count[1] # 0 \/ count[2] # 0 \/ count[3] # 0 \/ Len(stream) < n * width
        THEN [val |-> "Err", items |-> <<>>, rest |-> <<>>]
        ELSE [val |-> "Ok",
              items |-> [i \in 1..n |-> SubSeq(stream, (i - 1) * width + 1, i * width)],
              rest |-> SubSeq(stream, n * width + 1, Len(stream))]

PROTOCOL_VERSION == 70015

\* GetHeadersMessage::new, as the structure it builds.
NewGetHeaders(hash_bytes) ==
    [version |-> PROTOCOL_VERSION, hash_count |-> CompactSizeOf("U8", <<1>>),
     block_header_hashes |-> <<hash_bytes>>, stop_hash |-> Rep(32, 0)]

\* GetHeadersMessage::to_bytes
get_headers_to_bytes(msg) ==
    u32_to_le_bytes(msg.version) \o compact_to_le_bytes(msg.hash_count)
        \o msg.block_header_hashes[1] \o msg.stop_hash

\* GetHeadersMessage::read_from on the bytes of a payload.
get_headers_read_from(stream) ==
    LET err == [val |-> "Err", bytes |-> <<>>]
        count == compact_read_from(SubSeq(stream, 5, Len(stream)))
        hashes == read_n(count.rest, count.size, 32)
        last_hash == IF hashes.items = <<>> THEN Rep(32, 0) ELSE hashes.items[1]
    IN  IF Len(stream) < 4 \/ count.val = "Err" THEN err
        ELSE IF hashes.val = "Err" \/ Len(hashes.rest) < 32 THEN err
        ELSE [val |-> "Ok", bytes |-> get_headers_to_bytes(NewGetHeaders(last_hash))]

\* TypeIdentifier::from_le_bytes accepts the identifiers 1 to 4.
TypeIdentifiers == 1..4

\* Inventory::to_bytes of the inventory read by Inventory::read_from from 36 bytes.
inventory_to_bytes(item) ==
    u32_to_le_bytes(u32_from_le_bytes(SubSeq(item, 1, 4))) \o SubSeq(item, 5, 36)

\* InvMessage::read_from on the bytes of a payload, and InvMessage::to_bytes of what
\* it read.
inv_read_from(stream) ==
    LET err == [val |-> "Err", bytes |-> <<>>]
        count == compact_read_from(stream)
        inventory == read_n(count.rest, count.size, 36)
    IN  IF count.val = "Err" \/ inventory.val = "Err" THEN err
        ELSE IF \E i \in 1..Len(inventory.items) :
                    u32_from_le_bytes(SubSeq(inventory.items[i], 1, 4)) \notin TypeIdentifiers
        THEN err
        ELSE [val |-> "Ok",
              bytes |-> compact_to_le_bytes(count.size)
                            \o Flat([i \in 1..Len(inventory.items) |->
                                        inventory_to_bytes(inventory.items[i])])]

\* The match of Message::read_from for a header whose command is `name` and whose
\* checksum is `checksum`, on the bytes of the payload.
read_payload(name, checksum, stream) ==
    LET decoded == IF name = "getheaders" THEN get_headers_read_from(stream)
                   ELSE inv_read_from(stream)
    IN  IF decoded.val = "Err" THEN [val |-> "Err", bytes |-> <<>>]
        ELSE IF checksum_of(decoded.bytes) # checksum
        THEN [val |-> "Checksum is not valid", bytes |-> decoded.bytes]
        ELSE decoded

\* The hashes of the payloads.
Hashes32 == {Rep(32, 1), Rep(32, 2)}

\* The count of a well-formed payload: one byte for the counts of the model.
WireCount(n) == <<n>>

\* The well-formed payloads of getheaders: a version, a count, that many locator
\* hashes and a stop hash.
GetHeadersPayloads ==
    {u32_to_le_bytes(version) \o WireCount(Len(hashes)) \o Flat(hashes) \o stop :
        version \in {PROTOCOL_VERSION, PROTOCOL_VERSION + 1},
        hashes \in SeqsUpTo(Hashes32, MaxElements),
        stop \in {Rep(32, 0), Rep(32, 1)}}

\* The well-formed payloads of inv: a count and that many entries of an identifier
\* and a hash.
InvPayloads ==
    {WireCount(Len(entries)) \o Flat(entries) :
        entries \in SeqsUpTo({u32_to_le_bytes(t) \o h : t \in {1, 2}, h \in Hashes32},
                             MaxElements)}

\* A message with a well-formed payload and the checksum of that payload is read.
ReadPayload ==
    /\ calc = NoCalc
    /\ \E name \in {"getheaders", "inv"} :
        \E payload \in IF name = "getheaders" THEN GetHeadersPayloads ELSE InvPayloads :
            calc' = Called("read_from", [name |-> name, payload |-> payload],
                           read_payload(name, checksum_of(payload), payload))
    /\ UNCHANGED calcOther

\* Tx::to_raw_tx and Txs::to_raw_txs
to_raw_txs(txs) ==
    [i \in 1..Len(txs) |->
        RawTransaction(txs[i].tx_in,
                       [j \in 1..Len(txs[i].tx_out) |->
                           TxOut(txs[i].tx_out[j].value, txs[i].tx_out[j].pkscript)])]

\* Blockchain::get_blocks from the block at position i on, oldest block first, for
\* the identity `hash` and the identities `rest` not yet looked for; last_hash is
\* the identity of the block before position i.
RECURSIVE scan_blocks(_, _, _, _, _, _)
scan_blocks(c, rest, hash, i, last_hash, blocks) ==
    IF i > Len(c)
    THEN IF rest = <<>> THEN blocks
         ELSE scan_blocks(c, Tail(rest), Head(rest), 1, ZeroHash, blocks)
    ELSE IF c[i].hash = hash
    THEN LET found == IF c[i].txs = <<>> THEN blocks
                      ELSE Append(blocks, BlockMessage(to_block_header(c[i], last_hash),
                                                       to_raw_txs(c[i].txs[1])))
         IN  IF rest = <<>> THEN found
             ELSE scan_blocks(c, Tail(rest), Head(rest), i + 1, c[i].hash, found)
    ELSE scan_blocks(c, rest, hash, i + 1, c[i].hash, blocks)

\* Blockchain::get_blocks
get_blocks(b, hashes) ==
    IF hashes = <<>> THEN <<>>
    ELSE scan_blocks(b.chain, Tail(hashes), Head(hashes), 1, ZeroHash, <<>>)

Inventory(type_identifier, hash) == [type_identifier |-> type_identifier, hash |-> hash]

WrittenTo(command, payload) == [command |-> command, payload |-> payload]

\* handle_get_data, every write succeeding: the messages written to the stream.
handle_get_data(inventory, pool, b) ==
    LET RECURSIVE txs_of(_)
        txs_of(i) ==
            IF i > Len(inventory) THEN <<>>
            ELSE (IF inventory[i].type_identifier = "MsgTx" /\ inventory[i].hash \in DOMAIN pool
                  THEN <<WrittenTo("tx", pool[inventory[i].hash])>> ELSE <<>>) \o txs_of(i + 1)
        RECURSIVE requested_blocks(_)
        requested_blocks(i) ==
            IF i > Len(inventory) THEN <<>>
            ELSE (IF inventory[i].type_identifier = "MsgBlock"
                  THEN <<inventory[i].hash>> ELSE <<>>) \o requested_blocks(i + 1)
        blocks == get_blocks(b, requested_blocks(1))
    IN  txs_of(1) \o [k \in 1..Len(blocks) |-> WrittenTo("block", blocks[k])]

\* A header on top of `prev` for a block of the transactions txns.
HeaderFor(prev, txns) ==
    BlockHeader(prev, merkle_tree_root(get_tx_ids(from_raw_txs(txns))), 1, EasyBits, 1)

\* The chains get_blocks is asked about: blocks with and without their
\* transactions on top of the genesis block.
OneFull == push_full_block(NewBlockchain, BlockMessage(HeaderFor(GENESIS_BLOCK_HASH_VALUE, <<FundTx>>), <<FundTx>>))
TwoFull == push_full_block(OneFull, BlockMessage(HeaderFor(Tip(OneFull.chain).hash, <<SpendTx>>), <<SpendTx>>))
OneBare == push(NewBlockchain, HeaderFor(GENESIS_BLOCK_HASH_VALUE, <<FundTx>>))
BareThenFull == push_full_block(OneBare, BlockMessage(HeaderFor(Tip(OneBare.chain).hash, <<SpendTx>>), <<SpendTx>>))
ServedChains == {NewBlockchain, OneFull, TwoFull, BareThenFull}

\* The mempools: empty, or holding SpendTx2.
ServedPools == {EmptyMap, MapInsert(EmptyMap, get_tx_id(SpendTx2), SpendTx2)}

\* The requests about a chain: up to MaxElements entries for blocks of the chain or
\* an unknown one, and for transactions.
Requests(b) ==
    SeqsUpTo({Inventory("MsgBlock", h) : h \in {b.chain[i].hash : i \in 1..Len(b.chain)} \cup {OnesHash}}
                 \cup {Inventory("MsgTx", get_tx_id(tx)) : tx \in {SpendTx, SpendTx2}},
             MaxElements)

\* A getdata message is handled.
HandleGetData ==
    /\ calc = NoCalc
    /\ \E b \in ServedChains, pool \in ServedPools :
        \E inventory \in Requests(b) :
            calc' = Called("handle_get_data",
                           [inventory |-> inventory, mempool |-> pool, bc |-> b],
                           handle_get_data(inventory, pool, b))
    /\ UNCHANGED calcOther

\* The outpoints the transaction of a PayTo command spends: none when pay_to failed.
SpentBy(created) ==
    IF created.val # "Ok" THEN {}
    ELSE {created.tx.tx_in[i].previous_output : i \in 1..Len(created.tx.tx_in)}

\* handle_wallet_messages takes two PayTo commands of the same payer, one after the
\* other, on a node whose UTXO set is `set` and whose mempool is empty.  No block
\* arrives in between: both commands sort the outputs of the same UTXO set.
PayToPayTo ==
    /\ calc = NoCalc
    /\ \E set \in FundedSets, amount \in Amounts, fee1 \in Fees, fee2 \in Fees,
          checked \in BOOLEAN :
        \E s1 \in SortedOutputs(set, wif_to_pkhash(PayerWif)),
           s2 \in SortedOutputs(set, wif_to_pkhash(PayerWif)) :
            \E r1 \in {pay_to([node EXCEPT !.utxo = set], PayerWif, PayeeAddress, amount, fee1,
                               s1, TRUE, checked)} :
            \E r2 \in {pay_to(r1.n, PayerWif, PayeeAddress, amount, fee2, s2, TRUE, checked)} :
                LET c1 == Node_create_transaction([node EXCEPT !.utxo = set], PayerWif,
                                                  PayeeAddress, amount, fee1, s1, checked)
                    c2 == Node_create_transaction(r1.n, PayerWif, PayeeAddress, amount, fee2,
                                                  s2, checked)
                IN  calc' = Called("pay_to",
                                   [set |-> set, amount |-> amount, fees |-> <<fee1, fee2>>,
                                    checked |-> checked],
                                   [vals |-> <<r1.val, r2.val>>,
                                    spent |-> <<SpentBy(c1), SpentBy(c2)>>,
                                    mempool |-> r2.n.mempool])
    /\ UNCHANGED calcOther

\* A payment of key 1 to key hash 2 with change to key hash 1.
ChangeTx == create_transaction(<<FundOut(0)>>, <<TxOut(1, P2PKH(2)), TxOut(1, P2PKH(1))>>, 1)

\* The watched addresses of a wallet that holds key 1, key 2 or both.
WatchLists ==
    {<<AddressOf(1)>>, <<AddressOf(2)>>, <<AddressOf(1), AddressOf(2)>>,
     <<AddressOf(2), AddressOf(1)>>}

\* handle_tx for a transaction that is not in the mempool, then handle_block for a
\* block on the tip that contains it, on a node that holds the block of FundTx.
HandleTxHandleBlock ==
    /\ calc = NoCalc
    /\ \E addrs \in WatchLists, tx \in {SpendTx, ChangeTx}, delivered \in BOOLEAN :
        LET n0 == [node EXCEPT !.utxo = UtxoAppend(EmptyMap, from_raw_txs(<<FundTx>>)),
                               !.wallet_addresses = addrs]
            seen == handle_tx_insert(n0, tx, delivered, FALSE).n
            b == BlockMessage(BlockHeader(Last(seen.chain).hash,
                                          merkle_tree_root(get_tx_ids(from_raw_txs(<<tx>>))),
                                          1, EasyBits, 1), <<tx>>)
            r == block_loop(handle_block_push(seen, b), from_raw_txs(b.txns), 1)
        IN  calc' = Called("handle_block",
                           [wallet_addresses |-> addrs, tx |-> tx, delivered |-> delivered],
                           [events |-> r.n.events, wallet_txs |-> r.n.wallet_txs,
                            appended |-> Len(r.n.chain) = Len(seen.chain) + 1])
    /\ UNCHANGED calcOther

NextCalc ==
    \/ CreateTransaction
    \/ UtxoSetAppend
    \/ CompactSizeRoundTrip
    \/ MerkleTreeRoot
    \/ ValidateProofOfWork
    \/ ReadPayload
    \/ HandleGetData
    \/ PayToPayTo
    \/ HandleTxHandleBlock

SpecCalc == Init /\ [][NextCalc]_vars

(***************************************************************************)
(* The writes to the socket of one peer (message_header.rs, message/*.rs): *)
(* the thread of handle_messages owns one handle of the socket, and every  *)
(* broadcast_transaction takes another with try_clone (register.rs).       *)
(***************************************************************************)
wireOther ==
    <<chain, utxo, mempool, wallet_txs, wallet_addresses, events, sent, peers, wallet, ret, conn,
      calc, boot>>

\* MessageHeader::write_to: one write_all for each field of the header.
header_write_to(command) ==
    [i \in 1..4 |-> [command |-> command,
                     part |-> <<"start_string", "command_name", "payload_size", "checksum">>[i]]]

\* PongMessage::write_to, TxMessage::write_to: the header, then one write_all of the
\* payload.
message_write_to(command) ==
    Append(header_write_to(command), [command |-> command, part |-> "payload"])

\* One write_all on the socket by thread `who`, for its message number `frame`.
WriteAll(w, who, frame, pending) ==
    [w EXCEPT !.sock = Append(@, [who |-> who, frame |-> frame, command |-> pending[1].command,
                                  part |-> pending[1].part]),
              ![who] = Tail(pending)]

\* handle_messages: the thread of the peer writes the header of its mempool message,
\* then a pong for every ping it reads, one write_all in each step.
HandleMessagesWrite ==
    /\ IF wire.handler # <<>>
       THEN wire' = WriteAll(wire, "handler", wire.frames.handler, wire.handler)
       ELSE /\ wire.frames.handler < MaxFrames
            /\ LET pending == IF wire.frames.handler = 0 THEN header_write_to("mempool")
                               ELSE message_write_to("pong")
               IN  wire' = WriteAll([wire EXCEPT !.frames.handler = @ + 1], "handler",
                                    wire.frames.handler + 1, pending)
    /\ UNCHANGED wireOther

\* broadcast_transaction on the thread of the wallet commands (or of another peer, in
\* handle_tx): it writes a tx message to its clone of the socket, one write_all in
\* each step.
BroadcastWrite ==
    /\ IF wire.caster # <<>>
       THEN wire' = WriteAll(wire, "caster", wire.frames.caster, wire.caster)
       ELSE /\ wire.frames.caster < MaxFrames
            /\ wire' = WriteAll([wire EXCEPT !.frames.caster = @ + 1], "caster",
                                wire.frames.caster + 1, message_write_to("tx"))
    /\ UNCHANGED wireOther

NextWire == HandleMessagesWrite \/ BroadcastWrite

SpecWire == Init /\ [][NextWire]_vars

(***************************************************************************)
(* Properties of the Blockchain API.                                       *)
(***************************************************************************)
\* C1: after any sequence of push, push_full_block, add_block_txs and read_from_file
\* from Blockchain::new the chain is non-empty, its oldest block is the genesis block,
\* and the identity of every later block is the hash of its header with the identity
\* of the block directly below it as prev_block_hash.
C1_ChainLinked ==
    /\ Len(chain) >= 1
    /\ chain[1].hash = GENESIS_BLOCK_HASH_VALUE
    /\ \A i \in 2..Len(chain) :
           HeaderHash(to_block_header(chain[i], chain[i - 1].hash)) = chain[i].hash

\* A chain of MaxChain blocks, one with transactions and a header-only one above it,
\* after a call that was made on a chain that already had blocks.
C1_Witness ==
    /\ Len(chain) = MaxChain
    /\ chain[2].txs # <<>>
    /\ chain[MaxChain].txs = <<>>
    /\ ret.op \in {"push", "push_full_block", "add_block_txs"}

\* C2: push(h) changes the chain iff h.prev_block_hash is the identity of the tip;
\* then the size grows by one and the tip becomes h; otherwise size, tip and UTXO set
\* stay as they are; a second push of the same header changes nothing.
C2_PushContract ==
    \A h \in Headers :
        LET r == push(bc, h)
            extends == h.prev_block_hash = get_last_header_hash(bc)
        IN  /\ (r.chain # chain) <=> extends
            /\ extends => /\ get_size(r) = get_size(bc) + 1
                          /\ get_last_header_hash(r) = HeaderHash(h)
                          /\ SubSeq(r.chain, 1, Len(chain)) = chain
            /\ ~extends => /\ get_size(r) = get_size(bc)
                           /\ get_last_header_hash(r) = get_last_header_hash(bc)
                           /\ r.chain = chain
            /\ r.utxo = utxo
            /\ push(r, h) = r

\* push has returned on a chain with a block between the genesis block and the tip:
\* the headers on offer extend the tip, duplicate a stored header, fork from a
\* non-tip block or have an unknown parent.
C2_Witness ==
    /\ ret.op = "push"
    /\ Len(chain) = MaxChain
    /\ \E h \in Headers : HeaderHash(h) = chain[2].hash
    /\ \E h \in Headers : h.prev_block_hash = chain[1].hash /\ HeaderHash(h) # chain[2].hash

\* The (txid, index) pairs of the UTXO set.
LiveOutputs(set) == UNION {{<<h, set[h][i].index>> : i \in 1..Len(set[h])} : h \in DOMAIN set}

\* The transactions attached to blocks of the chain.
AttachedTxs ==
    UNION {Range(chain[i].txs[1]) : i \in {j \in 1..Len(chain) : chain[j].txs # <<>>}}

CreatedOutputs(txs) == UNION {{<<t.tx_id, t.tx_out[i].index>> : i \in 1..Len(t.tx_out)} : t \in txs}

SpentOutputs(txs) == UNION {Range(get_inputs(t)) : t \in txs}

\* C3: the UTXO set holds exactly the outputs created by the transactions attached to
\* blocks of the chain that no input of such a transaction references.
C3_UtxoExact == LiveOutputs(utxo) = CreatedOutputs(AttachedTxs) \ SpentOutputs(AttachedTxs)

\* Sum of the values of all outputs of the transactions txns[1..n].
RECURSIVE CreatedValue(_, _)
CreatedValue(txns, n) ==
    IF n = 0 THEN 0 ELSE CreatedValue(txns, n - 1) + SumValues(txns[n].tx_out)

\* The output an input of txns[k] references: a live output of `set` or an output of
\* one of txns[1..k-1]; <<>> when there is none.
Referenced(set, txns, k, input) ==
    LET live == UtxoGet(set, input[1], input[2])
        earlier == {<<j, i>> \in (1..(k - 1)) \X (1..8) :
                        /\ i <= Len(txns[j].tx_out)
                        /\ txns[j].tx_id = input[1]
                        /\ txns[j].tx_out[i].index = input[2]}
    IN  IF live # <<>> THEN live
        ELSE IF earlier # {} THEN LET e == CHOOSE x \in earlier : TRUE
                                  IN  <<txns[e[1]].tx_out[e[2]]>>
        ELSE <<>>

AllInputs(txns) ==
    {<<k, i>> \in (1..Len(txns)) \X (1..8) : i <= Len(txns[k].tx_in)}

RECURSIVE SumReferenced(_, _, _)
SumReferenced(set, txns, inputs) ==
    IF inputs = {} THEN 0
    ELSE LET x == CHOOSE y \in inputs : TRUE
         IN  Referenced(set, txns, x[1], get_inputs(txns[x[1]])[x[2]])[1].value
                 + SumReferenced(set, txns, inputs \ {x})

\* A block whose transactions are new to the UTXO set and whose inputs each reference
\* an existing output, no two the same one.
Applicable(set, txns) ==
    /\ \A k \in 1..Len(txns) : txns[k].tx_id \notin DOMAIN set
    /\ \A x \in AllInputs(txns) :
           Referenced(set, txns, x[1], get_inputs(txns[x[1]])[x[2]]) # <<>>
    /\ \A x, y \in AllInputs(txns) :
           x # y => get_inputs(txns[x[1]])[x[2]] # get_inputs(txns[y[1]])[y[2]]

\* The positions of the chain whose block gets its transactions in this step.
AppliedAt ==
    {i \in 1..Len(chain') :
        /\ chain'[i].txs # <<>>
        /\ i > Len(chain) \/ chain[i].txs = <<>>}

\* C4: when a block is applied to the UTXO set, the total balance becomes the previous
\* total plus the values of the outputs the block creates minus the values of the
\* outputs its inputs reference, whether those are outputs of earlier blocks or of
\* earlier transactions of the same block.
C4_BalanceDelta ==
    [][\A i \in AppliedAt :
           LET txns == chain'[i].txs[1]
           IN  Applicable(utxo, txns) =>
                   get_total_balance(utxo') =
                       get_total_balance(utxo) + CreatedValue(txns, Len(txns))
                           - SumReferenced(utxo, txns, AllInputs(txns))]_vars

\* C5: every block of the chain that has transactions attached has the merkle root of
\* their identities as its stored merkle root.
C5_MerkleMatches ==
    \A i \in 1..Len(chain) :
        (chain[i].txs # <<>> /\ chain[i].txs[1] # <<>>) =>
            merkle_tree_root(get_tx_ids(chain[i].txs[1])) = chain[i].merkle_root_hash

\* C6: the identity of every stored header does not exceed the target expanded from
\* its bits field.
C6_StoredMeetTarget ==
    \A i \in 1..Len(chain) :
        CompareToTarget(HashBytes(chain[i].hash), target_threshold(chain[i].bits)) # "greater"

\* The conditions under which a transaction is valid: at least one input, every input
\* present in the UTXO set, every spent output's script true for its input, outputs
\* not worth more than the spent outputs.
ValidConditions(tx) ==
    LET inputs == get_inputs(from_raw_tx(tx))
        spent(i) == UtxoGet(utxo, inputs[i][1], inputs[i][2])
        SumSpent[i \in 0..Len(inputs)] ==
            IF i = 0 THEN 0 ELSE SumSpent[i - 1] + spent(i)[1].value
        SumOut[i \in 0..Len(tx.tx_out)] ==
            IF i = 0 THEN 0 ELSE SumOut[i - 1] + tx.tx_out[i].value
    IN  /\ Len(tx.tx_in) >= 1
        /\ \A i \in 1..Len(inputs) : spent(i) # <<>>
        /\ \A i \in 1..Len(inputs) : evaluate(spent(i)[1].pkscript, tx, i - 1)
        /\ SumOut[Len(tx.tx_out)] <= SumSpent[Len(inputs)]

\* C7: is_valid_tx(tx) returns true iff tx has an input, every input is in the UTXO
\* set, every spent output's script evaluates true for its input, and the outputs are
\* not worth more than the spent outputs.
C7_IsValidTxIff ==
    \A tx \in ValidationTxs, checked \in BOOLEAN :
        (is_valid_tx(bc, tx, checked) = "true") <=> ValidConditions(tx)

(***************************************************************************)
(* Properties of the running node.                                         *)
(***************************************************************************)
HasNegativeOutput(tx) == \E i \in 1..Len(tx.tx_out) : tx.tx_out[i].value < 0

\* The wallet thread has taken a PayTo command in this step.
PayToStep == wallet'.taken = wallet.taken + 1 /\ ret'.op = "pay_to"

\* C8: is_valid_tx rejects every transaction with an output of negative value, and a
\* PayTo command with a negative amount or a negative fee returns an error and leaves
\* the watch map, the mempool and what was broadcast as they were.
C8_NegativeNeverAccepted ==
    [][/\ \A tx \in ValidationTxs, checked \in BOOLEAN :
              HasNegativeOutput(tx) => is_valid_tx(bc, tx, checked) # "true"
       /\ (PayToStep /\ (ret'.arg[1] < 0 \/ ret'.arg[2] < 0)) =>
              /\ ret'.val # "Ok"
              /\ wallet_txs' = wallet_txs
              /\ mempool' = mempool
              /\ sent' = sent]_vars

\* C9: a peer thread inserts the transaction of a tx message into the mempool,
\* re-broadcasts it and reports it only if its identity is not in the mempool, also
\* when another peer thread is handling the same transaction.
C9_OnlyUnknownProcessed ==
    [][\A p \in Peers :
           (peers[p].pc = "insert" /\ peers'[p].pc # "insert") =>
               get_tx_id(peers[p].tx) \notin DOMAIN mempool]_vars

\* A peer thread ends handle_block in this step.
BlockHandled(p) == peers[p].pc = "block" /\ peers'[p].pc = "idle"

\* C10: when a block message is handled, for every transaction of the block that is
\* in the watch map a ConfirmedTx event is emitted and its identity leaves the watch
\* map.
C10_EveryWatchedConfirmed ==
    [][\A p \in Peers :
           BlockHandled(p) =>
               LET txs == peers[p].txs
                   emitted == SubSeq(events', Len(events) + 1, Len(events'))
               IN  \A i \in 1..Len(txs) :
                       txs[i].tx_id \in DOMAIN wallet_txs =>
                           /\ txs[i].tx_id \notin DOMAIN wallet_txs'
                           /\ ConfirmedTx(txs[i].tx_id, wallet_txs[txs[i].tx_id])
                                  \in Range(emitted)]_vars

\* C11: after a block message has been handled no transaction of that block is in
\* the mempool, whether it was in the watch map or not.
C11_BlockTxsLeaveMempool ==
    [][\A p \in Peers :
           BlockHandled(p) =>
               \A i \in 1..Len(peers[p].txs) :
                   peers[p].txs[i].tx_id \notin DOMAIN mempool']_vars

\* C12: between the UTXO update of a block and the emission of its events no thread
\* changes the chain or the UTXO set, and the events of two blocks are emitted in the
\* order in which the blocks were pushed.
C12_BlockEffectsAtomic ==
    [][\A p \in Peers :
           peers[p].pc = "block" =>
               /\ chain' = chain
               /\ utxo' = utxo
               /\ BlockHandled(p) =>
                      \A q \in Peers \ {p} :
                          peers[q].pc = "block" => peers[q].height > peers[p].height]_vars

(***************************************************************************)
(* Properties of the wallet commands.                                      *)
(***************************************************************************)
\* The thread of handle_wallet_messages has taken a command in this step.
WalletStep == wallet'.taken = wallet.taken + 1

AddAddressStep == WalletStep /\ ret'.op = "add_address"

\* The events sent in this step.
Emitted == SubSeq(events', Len(events) + 1, Len(events'))

\* The outputs of mempool transactions that the address can spend.
PayableOutputs(a) ==
    UNION {{<<tx, i>> : i \in {j \in 1..Len(tx.tx_out) :
                                  can_be_spent_by_address(tx.tx_out[j].pk_script, a) = "true"}} :
           tx \in PayingTxs(node, a)}

\* C14: an AddAddress command with a valid address completes: the address is
\* registered, Balance and then History are emitted for it, then one AddPendingBalance
\* for every mempool output payable to it and one NewTx for every mempool transaction
\* with such an output, and the coordinator goes on to the next command.
C14_AddAddressCompletes ==
    [][(AddAddressStep /\ bitcoin_address_to_pkhash(ret'.arg) # <<>>) =>
           LET a == ret'.arg
               pkhash == bitcoin_address_to_pkhash(a)[1]
           IN  /\ ret'.val = "Ok"
               /\ wallet'.at = "running"
               /\ a \in Range(wallet_addresses')
               /\ Len(Emitted) = 2 + Cardinality(PayableOutputs(a))
                                   + Cardinality(PayingTxs(node, a))
               /\ Emitted[1] = Balance(get_balance(utxo, pkhash), a)
               /\ Emitted[2] = History(get_tx_history(chain, pkhash), a)
               /\ \A tx \in PayingTxs(node, a) :
                      Cardinality({i \in 3..Len(Emitted) :
                                      /\ Emitted[i][1] = "NewTx"
                                      /\ Emitted[i][2] = get_tx_id(tx)}) = 1
               /\ Cardinality({i \in 3..Len(Emitted) : Emitted[i][1] = "AddPendingBalance"})
                      = Cardinality(PayableOutputs(a))]_vars

\* C15: a wallet command that does not succeed (malformed address, malformed WIF,
\* insufficient balance, invalid transaction, failed broadcast) makes the coordinator
\* emit exactly one Error event, and the coordinator goes on to the next command.
C15_FailureReportedOnce ==
    [][(WalletStep /\ ret'.val # "Ok") =>
           /\ Cardinality({i \in 1..Len(Emitted) : Emitted[i][1] = "Error"}) = 1
           /\ wallet'.at = "running"]_vars

\* The sum of the values of the first j outputs of a sequence of <<txid, Output>>.
RECURSIVE PrefixSum(_, _)
PrefixSum(sorted, j) == IF j = 0 THEN 0 ELSE PrefixSum(sorted, j - 1) + sorted[j][2].value

\* C16: a successful PayTo spends the shortest prefix of the payer's live outputs, in
\* descending order of value, whose sum is at least amount+fee; it pays amount to the
\* payee and, iff the sum exceeds amount+fee, the difference back to the payer, so the
\* spent values minus the output values are the fee.  With live outputs worth less
\* than amount+fee the command fails; watch map, mempool and broadcasts stay as they were.
C16_PayToSelection ==
    [][PayToStep =>
           LET amount == ret'.arg[1]
               fee == ret'.arg[2]
               pkhash == wif_to_pkhash(ret'.arg[3])
               addr == ret'.arg[4]
           IN  /\ ret'.val = "Ok" =>
                      /\ Emitted # <<>>
                      /\ Emitted[1][1] = "PaymentConfirmation"
                      /\ Emitted[1][2] \in DOMAIN mempool'
                      /\ \E sorted \in SortedOutputs(utxo, pkhash) : \E k \in 0..Len(sorted) :
                             LET tx == mempool'[Emitted[1][2]]
                                 sum == PrefixSum(sorted, k)
                             IN  /\ sum >= amount + fee
                                 /\ \A j \in 0..(k - 1) : PrefixSum(sorted, j) < amount + fee
                                 /\ Len(tx.tx_in) = k
                                 /\ \A i \in 1..k :
                                        tx.tx_in[i].previous_output =
                                            Outpoint(sorted[i][1], sorted[i][2].index)
                                 /\ tx.tx_out =
                                        <<TxOut(amount, from_address(addr))>> \o
                                        (IF sum > amount + fee
                                         THEN <<TxOut(sum - amount - fee, P2PKH(pkhash))>>
                                         ELSE <<>>)
                                 /\ sum - SumValues(tx.tx_out) = fee
               /\ get_balance(utxo, pkhash) < amount + fee =>
                      /\ ret'.val # "Ok"
                      /\ wallet_txs' = wallet_txs
                      /\ mempool' = mempool
                      /\ sent' = sent]_vars


(***************************************************************************)
(* Properties of a connection.                                             *)
(***************************************************************************)
\* C13: no thread writes to or reads from a peer socket while it holds the mutex of
\* the chain and the UTXO set: every write of a step of the connection is made
\* after the guard was dropped.
C13_NoSocketIoUnderMutex == \A i \in 1..Len(conn.out) : ~conn.out[i].held

\* The steps of Node::initialize_connection before the header sync.
SetUp == {"start", "verack", "getheaders"}

\* C17: an outbound connection writes version, reads a version message, writes
\* verack, reads a verack message, writes getheaders for the tip, in this order; a
\* message of another type, a failed read or a failed write ends the attempt without
\* an entry in the registry; the entry is made only after the header sync ended and
\* is never taken out.
C17_OutboundHandshake ==
    [][/\ (conn.pc = "start" /\ conn'.pc # "failed") =>
              /\ conn'.pc = "verack"
              /\ conn'.out = <<Written(VersionMessage, FALSE)>>
              /\ conn'.last.val = Version
       /\ (conn.pc = "verack" /\ conn'.pc # "failed") =>
              /\ conn'.pc = "getheaders"
              /\ conn'.out = <<Written(VerackMessage, FALSE)>>
              /\ conn'.last.val = Verack
       /\ (conn.pc = "getheaders" /\ conn'.pc # "failed") =>
              /\ conn'.pc = "sync"
              /\ Len(conn'.out) = 1
              /\ conn'.out[1].msg = GetHeadersMessage(Tip(chain).hash)
       /\ (conn.pc \in SetUp /\ conn'.pc = "failed") =>
              \/ conn'.out = <<>>
              \/ conn'.last.val \notin {Version, Verack}
              \/ conn.pc = "start" /\ conn'.last.val = Verack
              \/ conn.pc = "verack" /\ conn'.last.val = Version
       /\ (conn'.pc = "synced" /\ conn.pc # "synced") => conn.pc = "sync"
       /\ (conn'.pc = "sync" /\ conn.pc # "sync") => conn.pc = "getheaders"
       /\ (conn'.registered /\ ~conn.registered) => conn.pc = "synced"
       /\ conn.registered => conn'.registered
       /\ conn.pc = "failed" => conn'.pc = "failed" /\ ~conn'.registered]_vars

\* A connection that went through the handshake and the header sync is registered.
C17_Witness == conn.registered /\ conn.pc = "registered"

\* A message of the peer that Message::read_from has no reason to refuse.
WellFormed(m) ==
    /\ m.start_string = START_STRING
    /\ m.checksum = "valid"
    /\ m.command = "headers" => FirstRefused(m.headers) = 0

\* The messages of the peer a unit of whose header is in `head`.
SentIn(head) == {head[i][3] : i \in {j \in 1..Len(head) : head[j][1] = "header"}}

\* A step of the connection that called Message::read_from.
ReadStep(pc) == conn.pc = pc /\ conn'.reads = conn.reads + 1

\* C18: in the header sync every message of the peer is taken as what it is; a ping
\* is answered with a pong of the same nonce, a headers message with exactly 2000
\* headers with a getheaders for the new tip, a message of another type with
\* nothing; the sync ends exactly after a headers message with fewer than 2000
\* headers or after the second pong.
C18_HeaderSync ==
    [][ReadStep("sync") =>
          LET m == conn'.last.val
          IN  /\ \A w \in SentIn(conn'.last.head) : WellFormed(w) => m = Decoded(w)
              /\ conn'.pc = "synced" <=>
                     \/ m[1] = "Headers" /\ m[2] < MaxHeaders
                     \/ m[1] = "Ping" /\ conn.pings_available = 1 /\ conn'.out # <<>>
              /\ (m[1] = "Ping" /\ conn'.pc # "failed") =>
                     /\ Len(conn'.out) = 1
                     /\ conn'.out[1].msg = PongMessage(m[2])
              /\ (m[1] = "Headers" /\ m[2] = MaxHeaders /\ conn'.pc # "failed") =>
                     /\ conn'.pc = "sync"
                     /\ Len(conn'.out) = 1
                     /\ conn'.out[1].msg = GetHeadersMessage(Tip(chain').hash)
              /\ m[1] \notin {"Headers", "Ping", "Err"} =>
                     /\ conn'.pc = "sync"
                     /\ conn'.out = <<>>
                     /\ chain' = chain
              /\ conn'.pc = "failed" => m[1] = "Err" \/ conn'.out = <<>>]_vars

\* C19: the loop of handle_messages ends when a read from the socket fails with an
\* I/O error.
C19_LoopEndsOnIoError ==
    [][(ReadStep("loop") /\ conn'.last.val = ReadErr("io")) => conn'.pc # "loop"]_vars

\* C20: in the steady loop a message with an unknown command or one refused while it
\* is decoded does no harm to the messages after it: every well-formed message of
\* the peer is decoded as what it is and handled, whatever was sent before it.
C20_NextMessageDecoded ==
    [][ReadStep("loop") =>
          \A w \in SentIn(conn'.last.head) :
              WellFormed(w) =>
                  /\ conn'.last.val = Decoded(w)
                  /\ w.command = "ping" =>
                         conn'.out \in {<<>>, <<Written(PongMessage(w.nonce), FALSE)>>}
                  /\ w.command = "headers" =>
                         chain' = push_all(bc, w.headers).chain]_vars

(***************************************************************************)
(* Properties of the functions without state.                              *)
(***************************************************************************)
\* The values of the outputs out_to_spend lists.
SpentValue(out_to_spend) ==
    LET RECURSIVE Sum(_)
        Sum(n) == IF n = 0 THEN 0 ELSE out_to_spend[n][2].value + Sum(n - 1)
    IN  Sum(Len(out_to_spend))

\* C21: a transaction created by create_transaction from live P2PKH outputs of the
\* key, with outputs worth at most the spent outputs, is accepted by is_valid_tx, and
\* for every input the message signed at creation is the message OP_CHECKSIG verifies.
C21_CreatedIsValid ==
    (/\ calc[1] = "create_transaction"
     /\ SumValues(calc[2].arg.tx_out) <= SpentValue(calc[2].arg.out_to_spend)) =>
        /\ calc[2].val.valid = "true"
        /\ calc[2].val.signed = calc[2].val.verified

(***************************************************************************)
(* Properties of add_block_txs and of the UTXO map.                        *)
(***************************************************************************)
\* The merkle root of the transactions of a block message: the all-zero hash when
\* there are none.
RootOf(txns) ==
    IF txns = <<>> THEN ZeroHash ELSE merkle_tree_root(get_tx_ids(from_raw_txs(txns)))

\* C22: add_block_txs on a block whose identity is in the chain returns an error and
\* changes nothing when the merkle root of its transactions differs from the stored
\* one; when the roots match it attaches the transactions to that block and applies
\* them to the UTXO set.
C22_AddBlockTxsContract ==
    \A b \in BlockMessages :
        LET i == FindBlock(chain, HeaderHash(b.block_header))
            r == add_block_txs(bc, b)
            txs == from_raw_txs(b.txns)
        IN  i # 0 =>
                IF RootOf(b.txns) # chain[i].merkle_root_hash
                THEN r.val = "Err" /\ r.bc = bc
                ELSE /\ r.val = "Ok"
                     /\ r.bc.chain = [chain EXCEPT ![i] = add_txs(chain[i], txs)]
                     /\ r.bc.utxo = UtxoAppend(utxo, txs)
\* No identity of the map is bound to an empty list of outputs.
NoEmptyEntry(set) == \A h \in DOMAIN set : set[h] # <<>>

\* C23: no transaction identity of the UTXO map is bound to an empty output list: a
\* block applied to a map without such an entry leaves a map without such an entry.
C23_NoEmptyEntries ==
    (calc[1] = "append" /\ NoEmptyEntry(calc[2].arg.set)) => NoEmptyEntry(calc[2].val)

(***************************************************************************)
(* Properties of Node::initialize and of the block download.               *)
(***************************************************************************)
\* The step of multi_threaded_block_download that starts the workers.
Started == boot.pc = "connect" /\ boot'.pc # "connect"

\* The identities the workers 1..k ask for, in the order of the workers.
RECURSIVE Requested(_, _)
Requested(workers, k) ==
    IF k = 0 THEN <<>> ELSE Requested(workers, k - 1) \o workers[k].hashes

\* C24: with N registered peers the download starts N workers for every number of
\* blocks, zero included, and gives each one contiguous oldest-first range of at most
\* ceil(total / N) identities; every identity of the chain from the configured time
\* on is asked for by exactly one worker.
C24_DownloadPlan ==
    [][(Started /\ boot.registered >= boot.nthreads) =>
          /\ boot'.pc = "poll"
          /\ Len(boot'.workers) = boot.nthreads
          /\ Requested(boot'.workers, Len(boot'.workers)) = get_hashes_since(bc, boot.date)
          /\ \A w \in 1..Len(boot'.workers) :
                 Len(boot'.workers[w].hashes) * boot.nthreads
                     < Len(get_hashes_since(bc, boot.date)) + boot.nthreads]_vars

Terminated == \A w \in 1..Len(boot.workers) : boot.workers[w].at # "running"

\* C25: once every worker of the download has terminated, whether it received all
\* its blocks, was cut short by its peer or returned an error, the driver eventually
\* leaves its polling loop, joins the workers and adds the received blocks.
C25_DriverFinishes ==
    (boot.pc = "poll" /\ Terminated)
        ~> (boot.pc = "done" /\ boot.result = "Ok" /\ FirstErr(boot.workers) = 0)

\* C26: Node::initialize never aborts: a peer that fails is not registered, and the
\* download starts without a panic whatever the number of registered peers is.
C26_InitializeNeverAborts == boot.pc # "panic"

\* The value of little-endian bytes b as a usize.
ValueOf(b) == into_inner(CompactSizeOf("U64", from_le_bytes(b)))

\* C28: a count built by new_from_usize and written by to_le_bytes is read back by
\* read_from as the same count; a count up to 252 takes one byte, and the longer
\* forms are the prefix 253, 254 or 255 and the count in 2, 4 or 8 little-endian
\* bytes.
C28_CompactSizeRoundTrip ==
    calc[1] = "compact_size" =>
        LET n == calc[2].arg
            bytes == calc[2].val.bytes
            read == calc[2].val.read
        IN  /\ read.val = "Ok" /\ read.rest = <<>> /\ into_inner(read.size) = n
            /\ (n[1] = 0 /\ n[2] = 0 /\ n[3] = 0 /\ n[4] <= 252) => bytes = <<n[4]>>
            /\ Len(bytes) > 1 =>
                   /\ <<Len(bytes), bytes[1]>> \in {<<3, 253>>, <<5, 254>>, <<9, 255>>}
                   /\ ValueOf(Tail(bytes)) = n

\* A list of identities reduced level by level until one hash remains.
RECURSIVE PairedRoot(_)
PairedRoot(txns) == IF Len(txns) = 1 THEN txns[1] ELSE PairedRoot(MerkleLevel(txns))

\* C29: merkle_tree_root returns on every list of identities: the zero hash on the
\* empty list, the identity itself on a list of one, and else the hash left after
\* hashing adjacent pairs level by level, the last identity of an odd level paired
\* with itself.
C29_MerkleRootTotal ==
    calc[1] = "merkle_tree_root" =>
        calc[2].val = IF calc[2].arg = <<>> THEN ZeroHash ELSE PairedRoot(calc[2].arg)

\* The 32 bytes, most significant first, of m * 256^(e - 3), with e = bits >> 24 and
\* m = bits & 0x007FFFFF.
ClaimedTarget(bits) ==
    LET e == bits \div 16777216
        m == bits % 8388608
    IN  Rep(32 - e, 0) \o <<m \div 65536, (m \div 256) % 256, m % 256>> \o Rep(e - 3, 0)

\* a < b for numbers given by the same count of bytes, most significant first.
RECURSIVE LessThan(_, _)
LessThan(a, b) ==
    IF a = <<>> THEN FALSE
    ELSE Head(a) < Head(b) \/ (Head(a) = Head(b) /\ LessThan(Tail(a), Tail(b)))

\* An identity, hash[0] first, as a number with its most significant byte first.
LittleEndian(hash) == [i \in 1..Len(hash) |-> hash[Len(hash) + 1 - i]]

\* C30: for an exponent between 3 and 32, validate_proof_of_work accepts a header
\* exactly when its identity, a little-endian number, is less than the target
\* m * 256^(e - 3) with m = bits & 0x007FFFFF; an identity equal to the target is
\* refused.
C30_ProofOfWorkThreshold ==
    (calc[1] = "validate_proof_of_work" /\ calc[2].arg.bits \div 16777216 \in 3..32) =>
        (calc[2].val <=> LessThan(LittleEndian(calc[2].arg.hash), ClaimedTarget(calc[2].arg.bits)))

\* C27: the value decoded from a well-formed payload encodes to the bytes of that
\* payload, whatever the count of its elements, so a well-formed message with the
\* checksum of its payload is accepted.
C27_DecodeEncodeRoundTrip ==
    calc[1] = "read_from" =>
        (calc[2].val.val = "Ok" /\ calc[2].val.bytes = calc[2].arg.payload)

Replies(out, command, payload) ==
    {j \in 1..Len(out) : out[j].command = command /\ out[j].payload = payload}

\* C32: on a getdata message, every requested block that is in the chain with its
\* transactions is answered by exactly one block message with the header of that
\* block and the identity of its predecessor, whatever the order of the request, and
\* a requested transaction is answered by a tx message exactly when it is in the
\* mempool.
C32_GetDataAnswered ==
    calc[1] = "handle_get_data" =>
        LET a == calc[2].arg
            out == calc[2].val
            c == a.bc.chain
        IN  \A i \in 1..Len(a.inventory) :
                LET k == FindBlock(c, a.inventory[i].hash)
                IN  /\ (a.inventory[i].type_identifier = "MsgBlock" /\ k > 1 /\ c[k].txs # <<>>) =>
                        Cardinality(Replies(out, "block",
                            BlockMessage(to_block_header(c[k], c[k - 1].hash),
                                         to_raw_txs(c[k].txs[1])))) = 1
                    /\ a.inventory[i].type_identifier = "MsgTx" =>
                        (a.inventory[i].hash \in DOMAIN a.mempool
                            <=> \E j \in 1..Len(out) :
                                    /\ out[j].command = "tx"
                                    /\ get_tx_id(out[j].payload) = a.inventory[i].hash)

(***************************************************************************)
(* Properties of the locks.                                                *)
(***************************************************************************)
\* C33: no thread ever waits for ever for a lock: the coordinator of the wallet is
\* never blocked on the mutex of the chain that it holds itself.
C33_NoThreadWaitsForever == ~BlockchainHeld


(***************************************************************************)
(* Properties of blocks that are not appended.                              *)
(***************************************************************************)
\* C34: a block message whose header is not appended to the chain (its prev_hash is
\* not the identity of the tip: a duplicate, a fork, an unknown parent) leaves the
\* UTXO set unchanged.
C34_UnappendedBlockNoEffect ==
    [][(ret'.op = "push_full_block" /\ chain' = chain) => utxo' = utxo]_vars


(***************************************************************************)
(* Properties of the selection of outputs.                                  *)
(***************************************************************************)
\* C35: two PayTo commands of the same payer never spend the same outpoint: an output
\* spent by the transaction the first command put in the mempool is not selected by
\* the second.
C35_NoDoubleSelection ==
    calc[1] = "pay_to" => calc[2].val.spent[1] \cap calc[2].val.spent[2] = {}


(***************************************************************************)
(* Properties of is_valid_tx.                                               *)
(***************************************************************************)
\* The outpoints the inputs of a transaction name.
Outpoints(tx) == {tx.tx_in[i].previous_output : i \in 1..Len(tx.tx_in)}

\* The total value the UTXO map holds for a set of outpoints, each counted once.
RECURSIVE DistinctValue(_, _)
DistinctValue(set, outpoints) ==
    IF outpoints = {} THEN 0
    ELSE LET o == CHOOSE x \in outpoints : TRUE
             a == UtxoGet(set, o.hash, o.index)
         IN  (IF a = <<>> THEN 0 ELSE a[1].value) + DistinctValue(set, outpoints \ {o})

\* C36: is_valid_tx never accepts a transaction whose outputs sum to more than the
\* total value of the distinct outpoints it spends: an outpoint named by two inputs is
\* counted once.
C36_NoValueCreated ==
    (calc[1] = "create_transaction" /\ calc[2].val.valid = "true") =>
        SumValues(calc[2].val.tx.tx_out) <= DistinctValue(calc[2].arg.set, Outpoints(calc[2].val.tx))


(***************************************************************************)
(* Properties of the writes to a socket.                                    *)
(***************************************************************************)
\* The writes of one message of one thread.
SameFrame(a, b) == a.who = b.who /\ a.frame = b.frame

\* C37: every message written to the socket of a peer is contiguous: between two
\* writes of one message there is no write of another thread.
C37_FramesContiguous ==
    \A i, j, k \in 1..Len(wire.sock) :
        (i < j /\ j < k /\ SameFrame(wire.sock[i], wire.sock[k])) =>
            SameFrame(wire.sock[j], wire.sock[i])


(***************************************************************************)
(* Properties of the confirmation of watched transactions.                  *)
(***************************************************************************)
\* C38: for every NewTx emitted for a transaction and a watched address, once a block
\* that contains the transaction has been handled a ConfirmedTx has been emitted for
\* the transaction and that same address, also when the transaction pays several
\* watched addresses.
C38_EveryNewTxConfirmed ==
    (calc[1] = "handle_block" /\ calc[2].val.appended) =>
        LET sent_events == calc[2].val.events
            tx_id == get_tx_id(calc[2].arg.tx)
        IN  \A i \in 1..Len(sent_events) :
                (sent_events[i][1] = "NewTx" /\ sent_events[i][2] = tx_id) =>
                    ConfirmedTx(tx_id, sent_events[i][4]) \in Range(sent_events)


(***************************************************************************)
(* Properties of a failing AddAddress.                                      *)
(***************************************************************************)
\* C39: an AddAddress command that fails because the address is not valid base58 or
\* has a wrong checksum leaves the list of watched addresses as it was.
C39_FailedAddAddressNoEffect ==
    [][(AddAddressStep /\ ret'.arg = NotBase58) => wallet_addresses' = wallet_addresses]_vars


(***************************************************************************)
(* Properties of the events of the start of the node.                       *)
(***************************************************************************)
\* The positions of the event channel that hold an event of one of the kinds.
EventsOf(kinds) == {i \in 1..Len(events) : events[i][1] \in kinds}

\* The replies to wallet commands.
Replies40 == {"Balance", "History", "PaymentConfirmation", "Error"}

\* FinishedConnectingToPeers and NodeReady are sent at most once, the first before
\* every Loading, the second after every Loading and before every reply.
StartupOrder ==
    /\ Cardinality(EventsOf({"FinishedConnectingToPeers"})) <= 1
    /\ Cardinality(EventsOf({"NodeReady"})) <= 1
    /\ \A i \in EventsOf({"Loading"}) : \E j \in EventsOf({"FinishedConnectingToPeers"}) : j < i
    /\ \A i \in EventsOf({"NodeReady"}) : \A j \in EventsOf({"Loading"}) : j < i
    /\ \A i \in EventsOf(Replies40) : \E j \in EventsOf({"NodeReady"}) : j < i

\* Both events have been sent.
StartupSent ==
    /\ Cardinality(EventsOf({"FinishedConnectingToPeers"})) = 1
    /\ Cardinality(EventsOf({"NodeReady"})) = 1

\* C40: on the event channel FinishedConnectingToPeers is emitted exactly once and
\* before every Loading event, and NodeReady is emitted exactly once, after the last
\* Loading event and before any reply to a wallet command.
C40_StartupEvents == []StartupOrder /\ <>StartupSent

====
